---- MODULE Spec2Model ----
(***************************************************************************)
(* A model of budgetbot (src/budgetbot/src/index.ts): the Telegram update  *)
(* handler with its per-user conversation state, the expense table and the *)
(* helpers the handler calls.                                              *)
(*                                                                         *)
(* Representation.                                                         *)
(*  - A JavaScript string is a sequence of one-character strings, so that  *)
(*    trim, startsWith, split, Number() and the `in` operator are computed *)
(*    character by character as the runtime computes them.                 *)
(*  - A JavaScript number is a record [k, v]: k = "num" with v the value   *)
(*    in hundredths (every numeral of the input inventory has at most two  *)
(*    fraction digits), k = "nan", or k = "inf" with v the sign.           *)
(*  - null is the value Null, which no string equals.                      *)
(*  - A table is the set of its rows.                                      *)
(***************************************************************************)
EXTENDS Integers, Sequences, FiniteSets, TLC

\* ------------------------------------------------------------ strings ----

Null == <<"null">>

T_start == <<"/", "s", "t", "a", "r", "t">>
T_add == <<"/", "a", "d", "d">>
T_today == <<"/", "t", "o", "d", "a", "y">>
T_month == <<"/", "m", "o", "n", "t", "h">>
T_foo == <<"/", "f", "o", "o">>
T_addArgs == <<" ", "/", "a", "d", "d", " ", "l", "u", "n", "c", "h">>
T_Meals == <<"M", "e", "a", "l", "s">>
T_Drinks == <<"D", "r", "i", "n", "k", "s">>
T_Groceries == <<"G", "r", "o", "c", "e", "r", "i", "e", "s">>
T_Utilities == <<"U", "t", "i", "l", "i", "t", "i", "e", "s">>
T_Transport == <<"T", "r", "a", "n", "s", "p", "o", "r", "t">>
T_Declan == <<"D", "e", "c", "l", "a", "n">>
T_Myat == <<"M", "y", "a", "t">>
T_Other == <<"O", "t", "h", "e", "r">>
T_meals == <<"m", "e", "a", "l", "s">>
T_toString == <<"t", "o", "S", "t", "r", "i", "n", "g">>
T_1250 == <<"1", "2", ".", "5", "0">>
T_neg5 == <<"-", "5">>
T_abc == <<"a", "b", "c">>
T_hex == <<"0", "x", "1", "0">>
T_Infinity == <<"I", "n", "f", "i", "n", "i", "t", "y">>

DigitChars == <<"0", "1", "2", "3", "4", "5", "6", "7", "8", "9">>
HexLower == <<"0", "1", "2", "3", "4", "5", "6", "7", "8", "9", "a", "b", "c", "d", "e", "f">>
HexUpper == <<"0", "1", "2", "3", "4", "5", "6", "7", "8", "9", "A", "B", "C", "D", "E", "F">>

IsWhite(c) == c \in {" ", "\t", "\n", "\r"}

IsDigit(c) == \E i \in 1..10 : DigitChars[i] = c

\* The value of character c as a digit of the given base, or -1.
DigitIn(c, base) ==
  IF \E i \in 1..base : HexLower[i] = c \/ HexUpper[i] = c
  THEN (CHOOSE i \in 1..base : HexLower[i] = c \/ HexUpper[i] = c) - 1
  ELSE -1

RECURSIVE TrimLeft(_)
TrimLeft(s) == IF s = <<>> \/ ~IsWhite(Head(s)) THEN s ELSE TrimLeft(Tail(s))

RECURSIVE TrimRight(_)
TrimRight(s) ==
  IF s = <<>> \/ ~IsWhite(s[Len(s)]) THEN s ELSE TrimRight(SubSeq(s, 1, Len(s) - 1))

\* String.prototype.trim
trim(s) == TrimRight(TrimLeft(s))

\* text.startsWith("/")
startsWithSlash(s) == s # <<>> /\ s[1] = "/"

\* The length of the longest prefix of s without white space.
RECURSIVE TokenLen(_)
TokenLen(s) == IF s = <<>> \/ IsWhite(Head(s)) THEN 0 ELSE 1 + TokenLen(Tail(s))

\* text.split(/\s+/)[0]
firstToken(s) == SubSeq(s, 1, TokenLen(s))

\* ------------------------------------------------------------ Number() ---

NaN == [k |-> "nan", v |-> 0]

Num(h) == [k |-> "num", v |-> h]

Inf(sign) == [k |-> "inf", v |-> sign]

\* Number.isFinite
isFinite(n) == n.k = "num"

\* The number of consecutive digits of s from position i on.
RECURSIVE DigitsFrom(_, _)
DigitsFrom(s, i) == IF i > Len(s) \/ ~IsDigit(s[i]) THEN 0 ELSE 1 + DigitsFrom(s, i + 1)

RECURSIVE RadixValue(_, _)
RadixValue(s, base) ==
  IF s = <<>> THEN 0
  ELSE RadixValue(SubSeq(s, 1, Len(s) - 1), base) * base + DigitIn(s[Len(s)], base)

RECURSIVE Pow10(_)
Pow10(n) == IF n <= 0 THEN 1 ELSE 10 * Pow10(n - 1)

\* mant * 10^shift, the part below one hundredth cut off.
Scaled(mant, shift) ==
  IF shift >= 0 THEN mant * Pow10(shift) ELSE mant \div Pow10(0 - shift)

\* The value, in hundredths, of the literal s with n1 integer digits, n2
\* fraction digits and exponent e.
DecValue(s, n1, n2, e) ==
  Scaled(RadixValue(SubSeq(s, 1, n1) \o SubSeq(s, n1 + 2, n1 + 1 + n2), 10), e - n2 + 2)

\* The exponent digits start at position q and must run to the end of s.
DecExpDigits(s, n1, n2, q, sign) ==
  IF q <= Len(s) /\ DigitsFrom(s, q) = Len(s) - q + 1
  THEN Num(DecValue(s, n1, n2, sign * RadixValue(SubSeq(s, q, Len(s)), 10)))
  ELSE NaN

\* Position p holds the first character after the mantissa: nothing, or an
\* exponent part e [+-] digits.
DecExponent(s, n1, n2, p) ==
  IF n1 + n2 = 0 THEN NaN
  ELSE IF p > Len(s) THEN Num(DecValue(s, n1, n2, 0))
  ELSE IF s[p] \notin {"e", "E"} THEN NaN
  ELSE IF p < Len(s) /\ s[p + 1] = "-" THEN DecExpDigits(s, n1, n2, p + 2, -1)
  ELSE IF p < Len(s) /\ s[p + 1] = "+" THEN DecExpDigits(s, n1, n2, p + 2, 1)
  ELSE DecExpDigits(s, n1, n2, p + 1, 1)

\* After n1 integer digits: an optional point and fraction digits.
DecFraction(s, n1) ==
  IF n1 < Len(s) /\ s[n1 + 1] = "."
  THEN DecExponent(s, n1, DigitsFrom(s, n1 + 2), n1 + 2 + DigitsFrom(s, n1 + 2))
  ELSE DecExponent(s, n1, 0, n1 + 1)

\* StrUnsignedDecimalLiteral: Infinity, or digits [. digits] [e [+-] digits]
\* with at least one digit before the exponent. The result is in hundredths.
StrDecimal(s) ==
  IF s = T_Infinity THEN Inf(1) ELSE DecFraction(s, DigitsFrom(s, 1))

\* A conversion that loses the sign.
NegateLost(n) == n

\* The value of a literal with a leading minus sign.
Negate(n) == [k |-> n.k, v |-> 0 - n.v]

\* The base a NonDecimalIntegerLiteral prefix announces, or 0.
RadixOf(t) ==
  IF Len(t) >= 3 /\ t[1] = "0"
  THEN (IF t[2] \in {"x", "X"} THEN 16 ELSE IF t[2] \in {"o", "O"} THEN 8
        ELSE IF t[2] \in {"b", "B"} THEN 2 ELSE 0)
  ELSE 0

\* 0x, 0o or 0b followed by digits of that base, without sign.
RadixLiteral(t, base) ==
  IF \A i \in 3..Len(t) : DigitIn(t[i], base) >= 0
  THEN Num(100 * RadixValue(SubSeq(t, 3, Len(t)), base))
  ELSE NaN

\* StringToNumber of a string without surrounding white space.
StringToNumber(t) ==
  IF t = <<>> THEN Num(0)
  ELSE IF RadixOf(t) # 0 THEN RadixLiteral(t, RadixOf(t))
  ELSE IF t[1] = "-" THEN Negate(StrDecimal(Tail(t)))
  ELSE IF t[1] = "+" THEN StrDecimal(Tail(t))
  ELSE StrDecimal(t)

\* Number(text): white space is trimmed, the empty string is 0, a 0x/0o/0b
\* literal is read in its base, a signed decimal literal or Infinity is read
\* as such, anything else is NaN.
Number(s) == StringToNumber(trim(s))

\* ------------------------------------------------------- configuration ---

\* CATEGORIES, in declaration order (the order of Object.keys).
CATEGORIES ==
  << [name |-> T_Meals, type |-> "daily"],
     [name |-> T_Drinks, type |-> "daily"],
     [name |-> T_Groceries, type |-> "monthly"],
     [name |-> T_Utilities, type |-> "monthly"],
     [name |-> T_Transport, type |-> "monthly"],
     [name |-> T_Declan, type |-> "monthly"],
     [name |-> T_Myat, type |-> "monthly"],
     [name |-> T_Other, type |-> "other"] >>

CategoryNames == {CATEGORIES[i].name : i \in 1..Len(CATEGORIES)}

\* The property names CATEGORIES inherits from Object.prototype: the object
\* literal is created with that prototype and `in` follows the chain.
ObjectPrototypeKeys ==
  {T_toString,
   <<"c", "o", "n", "s", "t", "r", "u", "c", "t", "o", "r">>,
   <<"v", "a", "l", "u", "e", "O", "f">>,
   <<"h", "a", "s", "O", "w", "n", "P", "r", "o", "p", "e", "r", "t", "y">>,
   <<"i", "s", "P", "r", "o", "t", "o", "t", "y", "p", "e", "O", "f">>,
   <<"p", "r", "o", "p", "e", "r", "t", "y", "I", "s", "E", "n", "u", "m",
     "e", "r", "a", "b", "l", "e">>,
   <<"t", "o", "L", "o", "c", "a", "l", "e", "S", "t", "r", "i", "n", "g">>,
   <<"_", "_", "p", "r", "o", "t", "o", "_", "_">>}

\* text in CATEGORIES
inCATEGORIES(text) == text \in CategoryNames \cup ObjectPrototypeKeys


\* env.ALLOWED_USER_IDS: "1, 2,x" (two ids and an entry that is no number).
ENV_ALLOWED_USER_IDS == <<"1", ",", " ", "2", ",", "x">>

\* The prefix of s before its first comma.
RECURSIVE BeforeComma(_)
BeforeComma(s) ==
  IF s = <<>> \/ Head(s) = "," THEN <<>> ELSE <<Head(s)>> \o BeforeComma(Tail(s))

\* raw.split(",") as the set of its pieces.
RECURSIVE SplitComma(_)
SplitComma(s) ==
  LET first == BeforeComma(s)
  IN IF Len(first) = Len(s) THEN {first}
     ELSE {first} \cup SplitComma(SubSeq(s, Len(first) + 2, Len(s)))

\* parseAllowedUserIds: split on commas, trim, drop empty entries, convert
\* with Number and keep the finite ones.
parseAllowedUserIds(raw) ==
  {n \in {Number(t) : t \in {trim(p) : p \in SplitComma(raw)} \ {<<>>}} : isFinite(n)}

\* ------------------------------------------------------------- clock -----

\* The Singapore-local calendar date of clock reading 0; reading c is c days
\* later.
Epoch == [year |-> 2025, month |-> 3, day |-> 31]

IsLeapYear(y) == (y % 4 = 0 /\ y % 100 # 0) \/ y % 400 = 0

MonthLength(y, m) ==
  IF m = 2 THEN (IF IsLeapYear(y) THEN 29 ELSE 28)
  ELSE IF m \in {4, 6, 9, 11} THEN 30 ELSE 31

NextDay(d) ==
  IF d.day < MonthLength(d.year, d.month) THEN [d EXCEPT !.day = d.day + 1]
  ELSE IF d.month < 12 THEN [year |-> d.year, month |-> d.month + 1, day |-> 1]
  ELSE [year |-> d.year + 1, month |-> 1, day |-> 1]

RECURSIVE SgCalendar(_)
SgCalendar(c) == IF c <= 0 THEN Epoch ELSE NextDay(SgCalendar(c - 1))

Pad2(n) == <<DigitChars[((n \div 10) % 10) + 1], DigitChars[(n % 10) + 1]>>

Pad4(n) == Pad2(n \div 100) \o Pad2(n % 100)

\* A clock whose month string comes from a second reading, taken a day later
\* than the one the date string comes from.
nowSgLocalTwoReadings(c) ==
  [tsUtc |-> c,
   tsSgDate |-> Pad4(SgCalendar(c).year) \o <<"-">> \o Pad2(SgCalendar(c).month)
                  \o <<"-">> \o Pad2(SgCalendar(c).day),
   tsSgMonth |-> Pad4(SgCalendar(c + 1).year) \o <<"-">> \o Pad2(SgCalendar(c + 1).month),
   year |-> SgCalendar(c).year,
   month |-> SgCalendar(c).month]

\* nowSgLocal at clock reading c: the instant and its en-CA parts in
\* Asia/Singapore, joined as YYYY-MM-DD and YYYY-MM.
nowSgLocal(c) ==
  LET d == SgCalendar(c)
  IN [tsUtc |-> c,
      tsSgDate |-> Pad4(d.year) \o <<"-">> \o Pad2(d.month) \o <<"-">> \o Pad2(d.day),
      tsSgMonth |-> Pad4(d.year) \o <<"-">> \o Pad2(d.month),
      year |-> d.year,
      month |-> d.month]

\* ----------------------------------------------------------- storage -----

\* id INTEGER PRIMARY KEY AUTOINCREMENT: one more than the largest id.
NextExpenseId(ex) ==
  IF ex = {} THEN 1 ELSE 1 + (CHOOSE i \in {r.id : r \in ex} : \A r \in ex : r.id <= i)

ExpenseRow(ex, now, userId, category, amount) ==
  [id |-> NextExpenseId(ex), ts_utc |-> now.tsUtc, ts_sg_date |-> now.tsSgDate,
   ts_sg_month |-> now.tsSgMonth, user_id |-> userId, category |-> category,
   amount |-> amount]

\* An insert that replaces the user's earlier rows (INSERT OR REPLACE keyed
\* by user).
insertExpenseReplacing(ex, now, userId, category, amount) ==
  {r \in ex : r.user_id # userId} \cup {ExpenseRow(ex, now, userId, category, amount)}

\* An insert that skips a row equal, but for its id, to one already stored.
insertExpenseDeduplicating(ex, now, userId, category, amount) ==
  IF \E r \in ex : /\ r.user_id = userId /\ r.category = category
                   /\ r.amount = amount /\ r.ts_sg_date = now.tsSgDate
  THEN ex
  ELSE ex \cup {ExpenseRow(ex, now, userId, category, amount)}

\* insertExpense: INSERT INTO expenses (...) VALUES (...).
insertExpense(ex, now, userId, category, amount) ==
  ex \cup {ExpenseRow(ex, now, userId, category, amount)}

NoState == [found |-> FALSE, step |-> "", category |-> Null]

\* A lookup that answers every miss with a fresh choose_category row.
getUserStateDefaulting(us, userId) ==
  IF \E r \in us : r.user_id = userId
  THEN LET r == CHOOSE r \in us : r.user_id = userId
       IN [found |-> TRUE, step |-> r.step, category |-> r.category]
  ELSE [found |-> TRUE, step |-> "choose_category", category |-> Null]

\* A lookup that ignores the key and reads the row of the lowest user id.
getUserStateAnyUser(us, userId) ==
  IF us # {}
  THEN LET r == CHOOSE r \in us : \A q \in us : r.user_id <= q.user_id
       IN [found |-> TRUE, step |-> r.step, category |-> r.category]
  ELSE NoState

\* getUserState: SELECT step, category FROM user_state WHERE user_id = ?,
\* first row or null.
getUserState(us, userId) ==
  IF \E r \in us : r.user_id = userId
  THEN LET r == CHOOSE r \in us : r.user_id = userId
       IN [found |-> TRUE, step |-> r.step, category |-> r.category]
  ELSE NoState

\* An insert without the ON CONFLICT clause taking effect.
setUserStateNoConflict(us, userId, step, category) ==
  us \cup {[user_id |-> userId, step |-> step, category |-> category]}

\* setUserState: INSERT ... ON CONFLICT(user_id) DO UPDATE SET step, category.
setUserState(us, userId, step, category) ==
  {r \in us : r.user_id # userId}
    \cup {[user_id |-> userId, step |-> step, category |-> category]}

\* A delete that does nothing.
clearUserStateNoop(us, userId) == us

\* A clear that deletes the rows of all users.
clearUserStateEveryone(us, userId) == {}

\* clearUserState: DELETE FROM user_state WHERE user_id = ?.
clearUserState(us, userId) == {r \in us : r.user_id # userId}


\* Line 361: the allow-list of the configured environment.
allowedUserIds == parseAllowedUserIds(ENV_ALLOWED_USER_IDS)

\* A membership test that lets every sender through.
allowedHasSkipped(allowed, userId) == TRUE

\* allowed.has(userId)
allowedHas(allowed, userId) == Num(100 * userId) \in allowed

RECURSIVE SumAmounts(_)
SumAmounts(rows) ==
  IF rows = {} THEN 0
  ELSE LET r == CHOOSE r \in rows : TRUE IN r.amount + SumAmounts(rows \ {r})

RECURSIVE SumValues(_, _)
SumValues(f, keys) ==
  IF keys = {} THEN 0
  ELSE LET c == CHOOSE c \in keys : TRUE IN f[c] + SumValues(f, keys \ {c})

\* SELECT category, SUM(amount) ... GROUP BY category over the given rows,
\* then the loop that fills byCategory and adds up total.
GroupedSum(rows) ==
  LET byCategory == [c \in {r.category : r \in rows} |->
                       SumAmounts({r \in rows : r.category = c})]
  IN [total |-> SumValues(byCategory, DOMAIN byCategory), byCategory |-> byCategory]

SeqRange(q) == {q[i] : i \in 1..Len(q)}

\* A sum over the date that forgets the category filter.
sumForDateAnyCategory(ex, sgDate, categories) ==
  GroupedSum({r \in ex : r.ts_sg_date = sgDate})

\* A sum over the date that counts the rows of the first user only.
sumForDateOneUser(ex, sgDate, categories) ==
  GroupedSum({r \in ex : /\ r.ts_sg_date = sgDate /\ r.category \in SeqRange(categories)
                         /\ r.user_id = 1})

\* sumForDate: nothing is queried for an empty category list.
sumForDate(ex, sgDate, categories) ==
  IF Len(categories) = 0 THEN [total |-> 0, byCategory |-> <<>>]
  ELSE GroupedSum({r \in ex : r.ts_sg_date = sgDate /\ r.category \in SeqRange(categories)})

\* Line 236 / 267: the statement is run unless the category list is empty.
sumQueries(categories) == Len(categories) # 0

\* A monthly sum that reports every listed category, 0 for one without rows.
sumForMonthZeroFilled(ex, sgMonth, categories) ==
  LET byCategory == [c \in SeqRange(categories) |->
                       SumAmounts({r \in ex : r.ts_sg_month = sgMonth /\ r.category = c})]
  IN [total |-> SumValues(byCategory, DOMAIN byCategory), byCategory |-> byCategory]

\* sumForMonth: the same over ts_sg_month.
sumForMonth(ex, sgMonth, categories) ==
  IF Len(categories) = 0 THEN [total |-> 0, byCategory |-> <<>>]
  ELSE GroupedSum({r \in ex : r.ts_sg_month = sgMonth /\ r.category \in SeqRange(categories)})

\* Object.entries(CATEGORIES).filter(type).map(name)
CategoriesOfType(type) ==
  LET f == SelectSeq(CATEGORIES, LAMBDA c : c.type = type)
  IN [i \in 1..Len(f) |-> f[i].name]

DAILY_CATEGORIES == CategoriesOfType("daily")

MONTHLY_CATEGORIES == CategoriesOfType("monthly")

OTHER_CATEGORIES == CategoriesOfType("other")

\* ------------------------------------------------------------- state -----

\* The most expense rows a behaviour holds: no update is delivered once the
\* table is that full.
MaxExpenses == 2

\* The days the clock may advance past Epoch.
MaxClock == 1

\* The handler invocations that can be in flight together.
Workers == {1, 2}

VARIABLES
  user_state,   \* table user_state: rows [user_id, step, category]
  expenses,     \* table expenses: rows [id, ts_utc, ts_sg_date, ts_sg_month, user_id, category, amount]
  clock,        \* the current instant, in days after Epoch
  slots,        \* per worker: the invocation of handleTelegramUpdate it runs
  call          \* the last application of a calendar or budget function

vars == <<user_state, expenses, clock, slots, call>>

\* An invocation: its position (pc), the handler's locals, the storage calls
\* and messages it has made so far (trace), and the tables as they were when
\* the update arrived (pre_us, pre_ex: history, read by no action).
IdleSlot ==
  [pc |-> "idle", update |-> [message |-> FALSE, from |-> 0, chat |-> 0, text |-> Null],
   userId |-> 0, chatId |-> 0, text |-> <<>>, state |-> NoState, amount |-> NaN,
   via |-> "telegram", year |-> NaN, month |-> NaN, response |-> [status |-> 0, body |-> <<>>],
   bucket |-> <<>>, sums |-> <<>>, trace |-> <<>>, pre_us |-> {}, pre_ex |-> {},
   query |-> <<>>]

\* No function has been applied yet.
NoCall == [fn |-> "none", args |-> <<>>, result |-> <<>>]

Db(what) == [op |-> "db", what |-> what]

Send(what) == [op |-> "send", what |-> what]

Init ==
  /\ user_state = {}
  /\ expenses = {}
  /\ clock = 0
  /\ slots = [w \in Workers |-> IdleSlot]
  /\ call = NoCall

\* A handler is between two of its awaits; one that returned or threw is not.
Busy(w) == slots[w].pc \notin {"idle", "done", "failed"}

\* A handler of an update is between two of its awaits: it may insert a row;
\* the handler of a summary request never does.
Inserting(w) == Busy(w) /\ slots[w].via = "telegram"

\* message.text ?? ""
TextRaw(u) == IF u.text = Null THEN <<>> ELSE u.text

\* handleTelegramUpdate up to its first await (lines 349-371 and 393): an
\* update without message, sender or chat, or from a sender outside the
\* allow-list, ends the handler; a command clears the sender's state row; any
\* other text reads it.
HandleUpdate(w, u) ==
  /\ ~Busy(w)
  /\ Cardinality(expenses) + Cardinality({v \in Workers : Inserting(v)}) < MaxExpenses
  /\ LET text == trim(TextRaw(u))
         r == [IdleSlot EXCEPT !.update = u, !.userId = u.from, !.chatId = u.chat,
                               !.text = text, !.pre_us = user_state, !.pre_ex = expenses]
     IN IF ~u.message \/ u.from = 0 \/ u.chat = 0 \/ ~allowedHas(allowedUserIds, u.from)
        THEN /\ slots' = [slots EXCEPT ![w] = [r EXCEPT !.pc = "done"]]
             /\ UNCHANGED user_state
        ELSE IF startsWithSlash(text)
        THEN /\ user_state' = clearUserState(user_state, u.from)
             /\ slots' = [slots EXCEPT ![w] =
                  [r EXCEPT !.pc = "cleared", !.trace = <<Db("clearUserState")>>]]
        ELSE /\ slots' = [slots EXCEPT ![w] =
                  [r EXCEPT !.pc = "got_state",
                            !.state = getUserState(user_state, u.from),
                            !.trace = <<Db("getUserState")>>]]
             /\ UNCHANGED user_state
  /\ UNCHANGED <<expenses, clock, call>>

\* sendMonthSummary line 517: `${year}-${String(month).padStart(2, "0")}`,
\* for a year of four digits.
monthKey(year, month) == Pad4(year) \o <<"-">> \o Pad2(month)

\* The state row handleAdd writes, were it to carry a category.
addStateWithCategory(us, userId) == setUserState(us, userId, "choose_category", T_Meals)

\* handleAdd line 467: setUserState(env, userId, "choose_category", null).
addState(us, userId) == setUserState(us, userId, "choose_category", Null)

\* Lines 384-388: the text sent for a command that is none of the four.
unknownCommandReply ==
  <<"U", "n", "k", "n", "o", "w", "n", " ", "c", "o", "m", "m", "a", "n",
     "d", ".", " ", "A", "v", "a", "i", "l", "a", "b", "l", "e", " ", "c",
     "o", "m", "m", "a", "n", "d", "s", ":", " ", "/", "a", "d", "d", ",",
     " ", "/", "t", "o", "d", "a", "y", ",", " ", "/", "m", "o", "n", "t",
     "h" >>

\* The command dispatch (lines 373-389) up to the next await of the branch
\* taken: /start and an unknown command send their reply; /add writes the
\* choose_category row; /today and /month read the clock once, fix the date
\* or month of the summary (bucket) and run their first sum.
DispatchCommand(w) ==
  LET r == slots[w]
      cmd == firstToken(r.text)
      now == nowSgLocal(clock)
  IN /\ r.pc = "cleared"
     /\ IF cmd = T_start
        THEN /\ slots' = [slots EXCEPT ![w] =
                  [r EXCEPT !.pc = "done", !.trace = Append(@, Send("start"))]]
             /\ UNCHANGED user_state
        ELSE IF cmd = T_add
        THEN /\ user_state' = addState(user_state, r.userId)
             /\ slots' = [slots EXCEPT ![w] =
                  [r EXCEPT !.pc = "add_set", !.trace = Append(@, Db("setUserState"))]]
        ELSE IF cmd = T_today
        THEN /\ slots' = [slots EXCEPT ![w] =
                  [r EXCEPT !.pc = "today_read", !.bucket = now.tsSgDate,
                            !.sums = <<sumForDate(expenses, now.tsSgDate, DAILY_CATEGORIES)>>,
                            !.trace = Append(@, Db("sumForDate"))]]
             /\ UNCHANGED user_state
        ELSE IF cmd = T_month
        THEN /\ slots' = [slots EXCEPT ![w] =
                  [r EXCEPT !.pc = "month_daily", !.bucket = monthKey(now.year, now.month),
                            !.sums = <<sumForMonth(expenses, monthKey(now.year, now.month),
                                                   DAILY_CATEGORIES)>>,
                            !.trace = Append(@, Db("sumForMonth"))]]
             /\ UNCHANGED user_state
        ELSE /\ slots' = [slots EXCEPT ![w] =
                  [r EXCEPT !.pc = "done", !.trace = Append(@, Send("unknown_command"))]]
             /\ UNCHANGED user_state
     /\ UNCHANGED <<expenses, clock, call>>

\* handleAdd line 468: the category keyboard is sent.
AddPrompt(w) ==
  /\ slots[w].pc = "add_set"
  /\ slots' = [slots EXCEPT ![w] =
       [@ EXCEPT !.pc = "done", !.trace = Append(@, Send("choose_category"))]]
  /\ UNCHANGED <<user_state, expenses, clock, call>>

\* handleToday line 503: the summary is sent.
TodaySend(w) ==
  /\ slots[w].pc = "today_read"
  /\ slots' = [slots EXCEPT ![w] =
       [@ EXCEPT !.pc = "done", !.trace = Append(@, Send("today"))]]
  /\ UNCHANGED <<user_state, expenses, clock, call>>

\* sendMonthSummary lines 525-529: the sum over the monthly categories.
MonthMonthly(w) ==
  /\ slots[w].pc = "month_daily"
  /\ slots' = [slots EXCEPT ![w] =
       [@ EXCEPT !.pc = "month_monthly",
                 !.sums = Append(@, sumForMonth(expenses, slots[w].bucket, MONTHLY_CATEGORIES)),
                 !.trace = Append(@, Db("sumForMonth"))]]
  /\ UNCHANGED <<user_state, expenses, clock, call>>

\* sendMonthSummary lines 530-534: the sum over the other categories.
MonthOther(w) ==
  /\ slots[w].pc = "month_monthly"
  /\ slots' = [slots EXCEPT ![w] =
       [@ EXCEPT !.pc = "month_other",
                 !.sums = Append(@, sumForMonth(expenses, slots[w].bucket, OTHER_CATEGORIES)),
                 !.trace = Append(@, Db("sumForMonth"))]]
  /\ UNCHANGED <<user_state, expenses, clock, call>>

\* sendMonthSummary line 587: the summary is sent.
MonthSend(w) ==
  /\ slots[w].pc = "month_other"
  /\ slots' = [slots EXCEPT ![w] =
       [@ EXCEPT !.pc = "done", !.trace = Append(@, Send("month"))]]
  /\ UNCHANGED <<user_state, expenses, clock, call>>


\* Line 397: setUserState(env, userId, "await_amount", text).
chooseState(us, userId, text) == setUserState(us, userId, "await_amount", text)

\* Lines 395-412: in step choose_category a text that is `in CATEGORIES`
\* moves the row to await_amount with that text; any other text gets the
\* keyboard again.
ChooseCategory(w) ==
  LET r == slots[w]
  IN /\ r.pc = "got_state"
     /\ r.state.found /\ r.state.step = "choose_category"
     /\ IF inCATEGORIES(r.text)
        THEN /\ user_state' = chooseState(user_state, r.userId, r.text)
             /\ slots' = [slots EXCEPT ![w] =
                  [r EXCEPT !.pc = "category_set", !.trace = Append(@, Db("setUserState"))]]
        ELSE /\ slots' = [slots EXCEPT ![w] =
                  [r EXCEPT !.pc = "done", !.trace = Append(@, Send("category_keyboard"))]]
             /\ UNCHANGED user_state
     /\ UNCHANGED <<expenses, clock, call>>

\* Lines 398-402: the prompt for the amount.
AmountPrompt(w) ==
  /\ slots[w].pc = "category_set"
  /\ slots' = [slots EXCEPT ![w] =
       [@ EXCEPT !.pc = "done", !.trace = Append(@, Send("enter_amount"))]]
  /\ UNCHANGED <<user_state, expenses, clock, call>>

\* The truthiness of state.category: neither null nor the empty string.
Truthy(category) == category # Null /\ category # <<>>

AwaitingAmount(st) == st.found /\ st.step = "await_amount" /\ Truthy(st.category)

\* Lines 414-427: in step await_amount the text is converted with Number; a
\* result that is not finite gets the re-prompt, a finite one is inserted
\* with the pending category at the current clock reading.
EnterAmount(w) ==
  LET r == slots[w]
      amount == Number(r.text)
  IN /\ r.pc = "got_state"
     /\ AwaitingAmount(r.state)
     /\ IF ~isFinite(amount)
        THEN /\ slots' = [slots EXCEPT ![w] =
                  [r EXCEPT !.pc = "done", !.amount = amount,
                            !.trace = Append(@, Send("invalid_number"))]]
             /\ UNCHANGED expenses
        ELSE /\ expenses' = insertExpense(expenses, nowSgLocal(clock), r.userId,
                                          r.state.category, amount.v)
             /\ slots' = [slots EXCEPT ![w] =
                  [r EXCEPT !.pc = "inserted", !.amount = amount,
                            !.trace = Append(@, Db("insertExpense"))]]
     /\ UNCHANGED <<user_state, clock, call>>

\* An amount handler that leaves the state row in place after the insert.
AmountClearSkipped(w) ==
  /\ slots[w].pc = "inserted"
  /\ slots' = [slots EXCEPT ![w] =
       [@ EXCEPT !.pc = "amount_cleared", !.trace = Append(@, Db("clearUserState"))]]
  /\ UNCHANGED <<user_state, expenses, clock, call>>

\* Line 428: the state row is cleared after the insert.
AmountClear(w) ==
  /\ slots[w].pc = "inserted"
  /\ user_state' = clearUserState(user_state, slots[w].userId)
  /\ slots' = [slots EXCEPT ![w] =
       [@ EXCEPT !.pc = "amount_cleared", !.trace = Append(@, Db("clearUserState"))]]
  /\ UNCHANGED <<expenses, clock, call>>

\* Lines 429-434: the confirmation.
AmountConfirm(w) ==
  /\ slots[w].pc = "amount_cleared"
  /\ slots' = [slots EXCEPT ![w] =
       [@ EXCEPT !.pc = "done", !.trace = Append(@, Send("recorded"))]]
  /\ UNCHANGED <<user_state, expenses, clock, call>>

\* Lines 437-442: no step applies, the usage hint is sent.
UsageHint(w) ==
  LET r == slots[w]
  IN /\ r.pc = "got_state"
     /\ ~(r.state.found /\ r.state.step = "choose_category")
     /\ ~AwaitingAmount(r.state)
     /\ slots' = [slots EXCEPT ![w] =
          [r EXCEPT !.pc = "done", !.trace = Append(@, Send("usage_hint"))]]
     /\ UNCHANGED <<user_state, expenses, clock, call>>

\* ---------------------------------------------------------- keyboard ----

\* Object.keys(CATEGORIES): the names in declaration order.
categoryKeys == [i \in 1..Len(CATEGORIES) |-> CATEGORIES[i].name]

\* The loop of buildCategoryKeyboard (lines 330-337) from names[i] on, with
\* the row being filled and the rows pushed so far.
RECURSIVE KeyboardRows(_, _, _, _)
KeyboardRows(names, i, row, rows) ==
  IF i > Len(names)
  THEN IF Len(row) # 0 THEN Append(rows, row) ELSE rows
  ELSE IF Len(row) + 1 = 3
  THEN KeyboardRows(names, i + 1, <<>>, Append(rows, Append(row, names[i])))
  ELSE KeyboardRows(names, i + 1, Append(row, names[i]), rows)

\* A keyboard with all the names in one row.
buildCategoryKeyboardOneRow(names) ==
  [keyboard |-> <<names>>, resize_keyboard |-> TRUE, one_time_keyboard |-> TRUE]

\* buildCategoryKeyboard, for the names Object.keys gives.
buildCategoryKeyboard(names) ==
  [keyboard |-> KeyboardRows(names, 1, <<>>, <<>>),
   resize_keyboard |-> TRUE, one_time_keyboard |-> TRUE]

\* ---------------------------------------------------------- calendar ----

\* Daily budgets, in hundredths.
WEEKDAY_DAILY_BUDGET == 5000

WEEKEND_DAILY_BUDGET == 8000

\* MONTHLY_CATEGORY_BUDGETS, in declaration order and hundredths.
MONTHLY_CATEGORY_BUDGETS ==
  << [name |-> T_Groceries, budget |-> 30000],
     [name |-> T_Utilities, budget |-> 15000],
     [name |-> T_Transport, budget |-> 21800],
     [name |-> T_Declan, budget |-> 10000],
     [name |-> T_Myat, budget |-> 20000] >>

\* The day number of 1 March of year y (days since 1970-01-01, proleptic
\* Gregorian calendar).
MarchFirst(y) == y * 365 + (y \div 4) - (y \div 100) + (y \div 400) - 719468

\* The day number of day 1 of month m (1..12) of year y: months are counted
\* from March, so that the leap day ends the year.
DaysFromCivil(y, m) ==
  IF m > 2 THEN MarchFirst(y) + ((153 * (m - 3) + 2) \div 5)
  ELSE MarchFirst(y - 1) + ((153 * (m + 9) + 2) \div 5)

\* A year 0..99 given to Date.UTC or new Date means 1900 + year.
fullYear(year) == IF year >= 0 /\ year <= 99 THEN 1900 + year ELSE year

\* The day number Date.UTC(year, monthIndex, day) and new Date(year,
\* monthIndex, day) denote: a month index outside 0..11 carries into the
\* year, and the day counts on from day 1 of that month, below 1 and past its
\* end alike.
MakeDay(year, monthIndex, day) ==
  DaysFromCivil(fullYear(year) + (monthIndex \div 12), (monthIndex % 12) + 1) + day - 1

\* getUTCDay: 0 = Sunday .. 6 = Saturday (1970-01-01 was a Thursday).
WeekDay(dayNumber) == (dayNumber + 4) % 7

\* new Date(year, month, 0).getDate(): the last day of month `month` (1-based).
lastDayOfMonth(year, month) == MakeDay(year, month, 0) - MakeDay(year, month - 1, 1) + 1

RECURSIVE CountWeekends(_, _, _)
CountWeekends(year, month, day) ==
  IF day < 1 THEN 0
  ELSE (IF WeekDay(MakeDay(year, month - 1, day)) \in {0, 6} THEN 1 ELSE 0)
       + CountWeekends(year, month, day - 1)

WeekCounts(daysInMonth, weekends) ==
  [weekdays |-> (IF daysInMonth < 1 THEN 0 ELSE daysInMonth) - weekends, weekends |-> weekends]

\* countWeekdaysWeekends: every day 1..daysInMonth is classified by getUTCDay.
countWeekdaysWeekends(year, month) ==
  WeekCounts(lastDayOfMonth(year, month),
             CountWeekends(year, month, lastDayOfMonth(year, month)))

\* The budgets of the two kinds of day exchanged.
BucketBudgetSwapped(c) == c.weekdays * WEEKEND_DAILY_BUDGET + c.weekends * WEEKDAY_DAILY_BUDGET

\* monthlyDailyBucketBudget
BucketBudget(c) == c.weekdays * WEEKDAY_DAILY_BUDGET + c.weekends * WEEKEND_DAILY_BUDGET

monthlyDailyBucketBudget(year, month) == BucketBudget(countWeekdaysWeekends(year, month))

\* dailyBudgetForSgDateString: the three fields of dateStr.split("-") are
\* converted with Number and passed to Date.UTC.
dailyBudgetForSgDateString(dateStr) ==
  IF WeekDay(MakeDay(RadixValue(SubSeq(dateStr, 1, 4), 10),
                     RadixValue(SubSeq(dateStr, 6, 7), 10) - 1,
                     RadixValue(SubSeq(dateStr, 9, 10), 10))) \in {0, 6}
  THEN WEEKEND_DAILY_BUDGET ELSE WEEKDAY_DAILY_BUDGET

\* normalizeSgDateString: /^\d{4}-\d{2}-\d{2}$/ or null.
normalizeSgDateString(dateStr) ==
  IF /\ Len(dateStr) = 10
     /\ \A i \in {1, 2, 3, 4, 6, 7, 9, 10} : IsDigit(dateStr[i])
     /\ dateStr[5] = "-" /\ dateStr[8] = "-"
  THEN dateStr ELSE Null

RECURSIVE SumBudgets(_)
SumBudgets(q) == IF q = <<>> THEN 0 ELSE Head(q).budget + SumBudgets(Tail(q))

\* Object.values(MONTHLY_CATEGORY_BUDGETS).reduce((a, b) => a + b, 0)
fixedBudgetTotal == SumBudgets(MONTHLY_CATEGORY_BUDGETS)

\* --------------------------------------------------------- HTTP API ------

jsonResponse(body, status) == [status |-> status, body |-> body]

\* A body whose remaining amount depends on the conversation states stored.
DailyBodyByStates(sgDate, budget, sum) ==
  [date |-> sgDate, budget_daily |-> budget, spent_daily |-> sum.total,
   remaining_daily |-> budget - sum.total - Cardinality(user_state),
   by_category |-> sum.byCategory]

\* The body of the daily summary for date sgDate with grouped sum `sum`.
DailyBody(sgDate, budget, sum) ==
  [date |-> sgDate, budget_daily |-> budget, spent_daily |-> sum.total,
   remaining_daily |-> budget - sum.total, by_category |-> sum.byCategory]

\* apiDailySummary lines 616-631 for the resolved date.
ApiDailyFor(w, sgDate, r) ==
  slots' = [slots EXCEPT ![w] =
    [r EXCEPT !.pc = "done", !.bucket = sgDate,
              !.sums = <<sumForDate(expenses, sgDate, DAILY_CATEGORIES)>>,
              !.trace = <<Db("sumForDate")>>,
              !.response = jsonResponse(
                 DailyBody(sgDate, dailyBudgetForSgDateString(sgDate),
                           sumForDate(expenses, sgDate, DAILY_CATEGORIES)), 200)]]

\* The invocation of an HTTP API handler, with the query parameters it got.
ApiSlot(via, query) ==
  [IdleSlot EXCEPT !.pre_us = user_state, !.pre_ex = expenses, !.via = via, !.query = query]

\* apiDailySummary(env, url), dateStr being url.searchParams.get("date") or
\* Null: a date that fails normalizeSgDateString is answered 400; otherwise
\* the budget of the date (today's when none is given) and the sum of the
\* daily categories are returned.
ApiDailySummary(w, dateStr) ==
  /\ ~Busy(w)
  /\ IF dateStr = Null \/ dateStr = <<>>
     THEN ApiDailyFor(w, nowSgLocal(clock).tsSgDate, ApiSlot("api_daily", <<dateStr>>))
     ELSE IF normalizeSgDateString(dateStr) = Null
     THEN slots' = [slots EXCEPT ![w] =
            [ApiSlot("api_daily", <<dateStr>>) EXCEPT
               !.pc = "done", !.response = jsonResponse([error |-> "Invalid date format"], 400)]]
     ELSE ApiDailyFor(w, normalizeSgDateString(dateStr), ApiSlot("api_daily", <<dateStr>>))
  /\ UNCHANGED <<user_state, expenses, clock, call>>

\* The whole part of a number given in hundredths (ToIntegerOrInfinity).
Trunc(h) == IF h >= 0 THEN h \div 100 ELSE 0 - ((0 - h) \div 100)

RECURSIVE NatToString(_)
NatToString(n) ==
  IF n < 10 THEN <<DigitChars[n + 1]>> ELSE NatToString(n \div 10) \o <<DigitChars[(n % 10) + 1]>>

\* The fraction digits of String(n), n having `frac` hundredths.
FractionString(frac) ==
  IF frac = 0 THEN <<>>
  ELSE IF frac % 10 = 0 THEN <<".", DigitChars[(frac \div 10) + 1]>>
  ELSE <<".", DigitChars[(frac \div 10) + 1], DigitChars[(frac % 10) + 1]>>

\* String(n) for a number in hundredths.
numberToString(h) ==
  IF h < 0 THEN <<"-">> \o NatToString((0 - h) \div 100) \o FractionString((0 - h) % 100)
  ELSE NatToString(h \div 100) \o FractionString(h % 100)

\* s.padStart(2, "0")
padStart2(s) == IF Len(s) = 0 THEN <<"0", "0">> ELSE IF Len(s) = 1 THEN <<"0">> \o s ELSE s

\* `${year}-${String(month).padStart(2, "0")}` for numbers in hundredths.
apiMonthKey(year, month) == numberToString(year) \o <<"-">> \o padStart2(numberToString(month))

\* Number(url.searchParams.get(name) ?? fallback)
ParamOr(str, fallback) == IF str = Null THEN Num(100 * fallback) ELSE Number(str)

\* The monthly summary started without the check of year and month.
ApiMonthlyForUnchecked(w, year, month, r) ==
  slots' = [slots EXCEPT ![w] =
    [r EXCEPT !.pc = "api_month_daily", !.year = year, !.month = month,
              !.bucket = apiMonthKey(year.v, month.v),
              !.sums = <<sumForMonth(expenses, apiMonthKey(year.v, month.v),
                                     DAILY_CATEGORIES)>>,
              !.trace = <<Db("sumForMonth")>>]]

\* apiMonthlySummary lines 639-649 for the year and month read.
ApiMonthlyFor(w, year, month, r) ==
  IF ~isFinite(year) \/ ~isFinite(month) \/ month.v < 100 \/ month.v > 1200
  THEN slots' = [slots EXCEPT ![w] =
         [r EXCEPT !.pc = "done", !.year = year, !.month = month,
                   !.response = jsonResponse([error |-> "Invalid year or month"], 400)]]
  ELSE slots' = [slots EXCEPT ![w] =
         [r EXCEPT !.pc = "api_month_daily", !.year = year, !.month = month,
                   !.bucket = apiMonthKey(year.v, month.v),
                   !.sums = <<sumForMonth(expenses, apiMonthKey(year.v, month.v),
                                          DAILY_CATEGORIES)>>,
                   !.trace = <<Db("sumForMonth")>>]]

\* apiMonthlySummary(env, url) up to its first await, yearStr and monthStr
\* being the query parameters or Null: the clock is read, a year or month
\* that is not finite or a month outside 1..12 is answered 400, otherwise the
\* daily categories of the month are summed.
ApiMonthlySummary(w, yearStr, monthStr) ==
  /\ ~Busy(w)
  /\ ApiMonthlyFor(w, ParamOr(yearStr, nowSgLocal(clock).year),
                   ParamOr(monthStr, nowSgLocal(clock).month), ApiSlot("api_monthly", <<yearStr, monthStr>>))
  /\ UNCHANGED <<user_state, expenses, clock, call>>

\* apiMonthlySummary lines 650-654: the sum over the monthly categories.
ApiMonthMonthly(w) ==
  /\ slots[w].pc = "api_month_daily"
  /\ slots' = [slots EXCEPT ![w] =
       [@ EXCEPT !.pc = "api_month_monthly",
                 !.sums = Append(@, sumForMonth(expenses, slots[w].bucket, MONTHLY_CATEGORIES)),
                 !.trace = Append(@, Db("sumForMonth"))]]
  /\ UNCHANGED <<user_state, expenses, clock, call>>

\* A body whose tracked spending counts the other categories too.
MonthlyBodyCountingOther(year, month, counts, spentDaily, spentMonthly, spentOther) ==
  [year |-> year, month |-> month,
   weekdays |-> counts.weekdays, weekends |-> counts.weekends,
   monthly_daily_budget |-> BucketBudget(counts),
   spent_daily |-> spentDaily, spent_monthly |-> spentMonthly, spent_other |-> spentOther,
   total_budget_tracked |-> BucketBudget(counts) + fixedBudgetTotal,
   total_spent_tracked |-> spentDaily + spentMonthly + spentOther,
   remaining_tracked |-> BucketBudget(counts) + fixedBudgetTotal
                          - (spentDaily + spentMonthly + spentOther)]

\* The body of the monthly summary: the counts and the daily bucket budget of
\* (year, month), the three sums and the tracked totals.
MonthlyBody(year, month, counts, spentDaily, spentMonthly, spentOther) ==
  [year |-> year, month |-> month,
   weekdays |-> counts.weekdays, weekends |-> counts.weekends,
   monthly_daily_budget |-> BucketBudget(counts),
   spent_daily |-> spentDaily, spent_monthly |-> spentMonthly, spent_other |-> spentOther,
   total_budget_tracked |-> BucketBudget(counts) + fixedBudgetTotal,
   total_spent_tracked |-> spentDaily + spentMonthly,
   remaining_tracked |-> BucketBudget(counts) + fixedBudgetTotal - (spentDaily + spentMonthly)]

\* apiMonthlySummary lines 655-690: the sum over the other categories, then
\* the totals and the response.
ApiMonthOther(w) ==
  /\ slots[w].pc = "api_month_monthly"
  /\ slots' = [slots EXCEPT ![w] =
       [@ EXCEPT !.pc = "done",
                 !.sums = Append(@, sumForMonth(expenses, slots[w].bucket, OTHER_CATEGORIES)),
                 !.trace = Append(@, Db("sumForMonth")),
                 !.response = jsonResponse(
                    MonthlyBody(slots[w].year.v, slots[w].month.v,
                                countWeekdaysWeekends(Trunc(slots[w].year.v),
                                                      Trunc(slots[w].month.v)),
                                slots[w].sums[1].total, slots[w].sums[2].total,
                                sumForMonth(expenses, slots[w].bucket, OTHER_CATEGORIES).total),
                    200)]]
  /\ UNCHANGED <<user_state, expenses, clock, call>>

\* One resumption of the invocation worker w runs.
Resume(w) ==
  \/ DispatchCommand(w)
  \/ AddPrompt(w)
  \/ TodaySend(w)
  \/ MonthMonthly(w)
  \/ MonthOther(w)
  \/ MonthSend(w)
  \/ ChooseCategory(w)
  \/ AmountPrompt(w)
  \/ EnterAmount(w)
  \/ AmountClear(w)
  \/ AmountConfirm(w)
  \/ UsageHint(w)

\* One resumption of the API request worker w runs.
ResumeApi(w) == ApiMonthMonthly(w) \/ ApiMonthOther(w)

\* ------------------------------------------------------------ inputs -----

Msg(from, chat, text) == [message |-> TRUE, from |-> from, chat |-> chat, text |-> text]

\* The texts the senders type; Null is a message without text (a photo, a
\* sticker).
Texts ==
  {T_start, T_add, T_addArgs, T_today, T_month, T_foo,
   T_Meals, T_meals, T_toString,
   T_1250, T_neg5, T_abc, T_Infinity, T_hex, Null}

\* What the second allow-listed sender and the stranger type.
OtherTexts == {T_add, T_Meals, T_1250}

\* Users 1 and 2 are on the allow-list, user 3 is not; an update may lack the
\* message, the sender or the chat.
Updates ==
  {Msg(1, 1, t) : t \in Texts}
    \cup {Msg(f, f, t) : f \in {2, 3}, t \in OtherTexts}
    \cup {Msg(0, 1, T_add), Msg(0, 1, T_1250), Msg(1, 0, T_add), Msg(1, 0, T_Meals),
          [message |-> FALSE, from |-> 0, chat |-> 0, text |-> Null]}

\* Updates are handled one after another: worker 1 takes the next update
\* when its invocation has returned.
Deliver == \E u \in Updates : HandleUpdate(1, u)

\* A day passes: the clock counts the days since Epoch, and may advance
\* between any two steps.
Tick ==
  /\ clock < MaxClock
  /\ clock' = clock + 1
  /\ UNCHANGED <<user_state, expenses, slots, call>>

Next == Deliver \/ Resume(1) \/ Tick

Spec == Init /\ [][Next]_vars


\* The updates and API requests of the concurrent runs, which take place
\* within one day.
ConcUpdates ==
  {Msg(1, 1, t) : t \in {T_add, T_today, T_month, T_Meals, T_1250}}
    \cup {Msg(2, 2, t) : t \in {T_add, T_Meals}}

T_date == <<"2", "0", "2", "5", "-", "0", "3", "-", "3", "1">>

T_badDate == <<"3", "1", "/", "0", "3">>

\* The values of the query parameter date.
ApiDates == {Null, T_date, T_badDate}

\* The values of the query parameters year and month.
ApiMonths == {<<Null, Null>>, <<<<"2", "0", "2", "5">>, <<"4">>>>, <<Null, <<"1", "3">>>>}

\* A free worker takes the next request; the lowest one, the workers being
\* interchangeable.
Free(w) == ~Busy(w) /\ \A v \in Workers : v < w => Busy(v)

DeliverAny(w) == Free(w) /\ \E u \in ConcUpdates : HandleUpdate(w, u)

RequestDaily(w) == Free(w) /\ \E d \in ApiDates : ApiDailySummary(w, d)

RequestMonthly(w) == Free(w) /\ \E q \in ApiMonths : ApiMonthlySummary(w, q[1], q[2])

\* Requests are handled concurrently: between two awaits of one invocation
\* any other invocation may run.
NextConc ==
  \E w \in Workers :
    DeliverAny(w) \/ RequestDaily(w) \/ RequestMonthly(w) \/ Resume(w) \/ ResumeApi(w)

SpecConc == Init /\ [][NextConc]_vars

\* ------------------------------------- calendar and budget functions -----
\* The calendar and budget functions applied on their own, once in a
\* behaviour, to the years, months, dates and budget tables below.

\* Years given to the calendar functions: two below 100, century years, a
\* leap year and a common year.
Years == {0, 50, 1900, 2000, 2024, 2025, 2100}

\* The days of month m of year y in the Gregorian calendar: the dates applied
\* are the calendar dates.
DaysOf(y, m) ==
  IF m = 2 THEN (IF (y % 4 = 0 /\ y % 100 # 0) \/ y % 400 = 0 THEN 29 ELSE 28)
  ELSE IF m \in {4, 6, 9, 11} THEN 30 ELSE 31

\* The date string YYYY-MM-DD of day d of month m of year y.
DateString(y, m, d) == Pad4(y) \o <<"-">> \o Pad2(m) \o <<"-">> \o Pad2(d)

\* Budget tables: the configured one, one with an entry for a daily category,
\* one with an entry for a name that is no category, and one that lacks the
\* entry of a monthly category.
BudgetTables ==
  {MONTHLY_CATEGORY_BUDGETS,
   Append(MONTHLY_CATEGORY_BUDGETS, [name |-> T_Meals, budget |-> 1000]),
   Append(MONTHLY_CATEGORY_BUDGETS, [name |-> T_meals, budget |-> 2500]),
   SubSeq(MONTHLY_CATEGORY_BUDGETS, 1, 4)}

\* dailyBudgetForSgDateString applied to the date string of a calendar date.
ApplyDailyBudget ==
  /\ call = NoCall
  /\ \E y \in Years, m \in 1..12 :
       \E d \in 1..DaysOf(y, m) :
         call' = [fn |-> "dailyBudgetForSgDateString", args |-> <<y, m, d>>,
                  result |-> dailyBudgetForSgDateString(DateString(y, m, d))]
  /\ UNCHANGED <<user_state, expenses, clock, slots>>

\* countWeekdaysWeekends applied to a year and a month.
ApplyCountWeekdaysWeekends ==
  /\ call = NoCall
  /\ \E y \in Years, m \in 1..12 :
       call' = [fn |-> "countWeekdaysWeekends", args |-> <<y, m>>,
                result |-> countWeekdaysWeekends(y, m)]
  /\ UNCHANGED <<user_state, expenses, clock, slots>>

\* monthlyDailyBucketBudget applied to a year and a month.
ApplyMonthlyDailyBucketBudget ==
  /\ call = NoCall
  /\ \E y \in Years, m \in 1..12 :
       call' = [fn |-> "monthlyDailyBucketBudget", args |-> <<y, m>>,
                result |-> monthlyDailyBucketBudget(y, m)]
  /\ UNCHANGED <<user_state, expenses, clock, slots>>

\* The fixedBudgetTotal reduction applied to a budget table.
ApplyFixedBudgetTotal ==
  /\ call = NoCall
  /\ \E t \in BudgetTables :
       call' = [fn |-> "fixedBudgetTotal", args |-> <<t>>, result |-> SumBudgets(t)]
  /\ UNCHANGED <<user_state, expenses, clock, slots>>

\* An expense row recorded at clock reading c.
RowAt(id, c, category, amount) ==
  [ExpenseRow({}, nowSgLocal(c), 1, category, amount) EXCEPT !.id = id]

\* Expense tables: the subsets of eight rows on two days of two months, in a
\* daily and a monthly category, with amounts that cancel.
SumTables ==
  SUBSET {RowAt(1, 0, T_Meals, 1250), RowAt(2, 0, T_Meals, -1250), RowAt(3, 0, T_Groceries, 300),
          RowAt(4, 0, T_Other, 700), RowAt(5, 1, T_Meals, 1250), RowAt(6, 1, T_Meals, 1250),
          RowAt(7, 1, T_Groceries, -500), RowAt(8, 0, T_Drinks, 450)}

\* Category lists: none, one name, the daily ones, and a mixed list.
SumLists == {<<>>, <<T_Meals>>, DAILY_CATEGORIES, <<T_Groceries, T_Meals, T_Utilities>>}

\* sumForDate applied to a table, a date and a category list.
ApplySumForDate ==
  /\ call = NoCall
  /\ \E ex \in SumTables : \E c \in 0..1 : \E l \in SumLists :
       call' = [fn |-> "sumForDate", args |-> <<ex, nowSgLocal(c).tsSgDate, l>>,
                result |-> [sum |-> sumForDate(ex, nowSgLocal(c).tsSgDate, l),
                            queried |-> sumQueries(l)]]
  /\ UNCHANGED <<user_state, expenses, clock, slots>>

\* sumForMonth applied to a table, a month and a category list.
ApplySumForMonth ==
  /\ call = NoCall
  /\ \E ex \in SumTables : \E c \in 0..1 : \E l \in SumLists :
       call' = [fn |-> "sumForMonth", args |-> <<ex, nowSgLocal(c).tsSgMonth, l>>,
                result |-> [sum |-> sumForMonth(ex, nowSgLocal(c).tsSgMonth, l),
                            queried |-> sumQueries(l)]]
  /\ UNCHANGED <<user_state, expenses, clock, slots>>

\* buildCategoryKeyboard applied to the configured names and to their
\* prefixes.
ApplyBuildCategoryKeyboard ==
  /\ call = NoCall
  /\ \E n \in 0..Len(categoryKeys) :
       call' = [fn |-> "buildCategoryKeyboard", args |-> <<SubSeq(categoryKeys, 1, n)>>,
                result |-> buildCategoryKeyboard(SubSeq(categoryKeys, 1, n))]
  /\ UNCHANGED <<user_state, expenses, clock, slots>>

NextCalendar ==
  \/ ApplySumForDate
  \/ ApplySumForMonth
  \/ ApplyBuildCategoryKeyboard
  \/ ApplyDailyBudget
  \/ ApplyCountWeekdaysWeekends
  \/ ApplyMonthlyDailyBucketBudget
  \/ ApplyFixedBudgetTotal
  \/ Tick

SpecCalendar == Init /\ [][NextCalendar]_vars

\* ------------------------------------------------------- summaries -------
\* One user records expenses in categories of every kind while the daily and
\* monthly summaries are requested, one request after another.

SummaryUpdates ==
  {Msg(1, 1, t) : t \in {T_add, T_Meals, T_Groceries, T_Other, T_1250, T_neg5,
                         T_today, T_month}}

\* The values of the query parameter date: none, dates of the calendar (a
\* Saturday among them), dates of the right shape that no calendar has, and
\* another shape.
SummaryDates ==
  {Null, DateString(2025, 3, 29), DateString(2025, 3, 31), DateString(2025, 4, 1),
   DateString(2025, 2, 30), DateString(2025, 13, 1), T_badDate}

\* The values of the query parameters year and month.
SummaryMonths ==
  ApiMonths \cup {<<T_abc, Null>>, <<Null, <<"0">>>>, <<Null, T_Infinity>>, <<Null, <<>>>>}

DeliverSummary == \E u \in SummaryUpdates : HandleUpdate(1, u)

AskDaily == \E d \in SummaryDates : ApiDailySummary(1, d)

AskMonthly == \E q \in SummaryMonths : ApiMonthlySummary(1, q[1], q[2])

NextSummary ==
  DeliverSummary \/ Resume(1) \/ AskDaily \/ AskMonthly \/ ResumeApi(1) \/ Tick

SpecSummary == Init /\ [][NextSummary]_vars

\* ------------------------------------------------- storage failures ----

\* A storage call that threw.
DbFailed(what) == [op |-> "db_failed", what |-> what]

\* The handler of w leaves through the exception of a storage write: the
\* write has no effect and nothing after it runs.
Throw(w, what) ==
  /\ slots' = [slots EXCEPT ![w] =
       [@ EXCEPT !.pc = "failed", !.trace = Append(@, DbFailed(what))]]
  /\ UNCHANGED <<user_state, expenses, clock, call>>

\* Line 371: the clearUserState of a command throws.
ClearFails(w, u) ==
  /\ ~Busy(w)
  /\ u.message /\ u.from # 0 /\ u.chat # 0 /\ allowedHas(allowedUserIds, u.from)
  /\ startsWithSlash(trim(TextRaw(u)))
  /\ slots' = [slots EXCEPT ![w] =
       [IdleSlot EXCEPT !.update = u, !.userId = u.from, !.chatId = u.chat,
                        !.text = trim(TextRaw(u)), !.pre_us = user_state,
                        !.pre_ex = expenses, !.pc = "failed",
                        !.trace = <<DbFailed("clearUserState")>>]]
  /\ UNCHANGED <<user_state, expenses, clock, call>>

\* Line 467: the setUserState of /add throws, after the clear of line 371.
AddSetFails(w) ==
  /\ slots[w].pc = "cleared" /\ firstToken(slots[w].text) = T_add
  /\ Throw(w, "setUserState")

\* Line 397: the setUserState of a category choice throws.
ChooseSetFails(w) ==
  /\ slots[w].pc = "got_state"
  /\ slots[w].state.found /\ slots[w].state.step = "choose_category"
  /\ inCATEGORIES(slots[w].text)
  /\ Throw(w, "setUserState")

\* Line 427: the insertExpense of an amount throws.
InsertFails(w) ==
  /\ slots[w].pc = "got_state"
  /\ AwaitingAmount(slots[w].state) /\ isFinite(Number(slots[w].text))
  /\ Throw(w, "insertExpense")

\* Line 428: the clearUserState after the insert throws.
AmountClearFails(w) ==
  /\ slots[w].pc = "inserted"
  /\ Throw(w, "clearUserState")

\* The handler of w is about to call sendMessage: after the writes of /add,
\* of a category choice and of an amount, after the sums of /today and
\* /month, or at once for /start, an unknown command, a text that is no
\* category, an amount that is no number and the usage hint.
AboutToSend(w) ==
  \/ slots[w].pc \in {"add_set", "today_read", "month_other", "category_set", "amount_cleared"}
  \/ slots[w].pc = "cleared" /\ firstToken(slots[w].text) \notin {T_add, T_today, T_month}
  \/ /\ slots[w].pc = "got_state"
     /\ ~(/\ slots[w].state.found /\ slots[w].state.step = "choose_category"
          /\ inCATEGORIES(slots[w].text))
     /\ ~(AwaitingAmount(slots[w].state) /\ isFinite(Number(slots[w].text)))

\* A failed delivery that undoes what the invocation wrote.
SendThrowsRollingBack(w) ==
  /\ slots' = [slots EXCEPT ![w] =
       [@ EXCEPT !.pc = "failed",
                 !.trace = Append(@, [op |-> "send_failed", what |-> "sendMessage"])]]
  /\ user_state' = slots[w].pre_us
  /\ expenses' = slots[w].pre_ex
  /\ UNCHANGED <<clock, call>>

\* telegramApi lines 299-303: the fetch of the Telegram API rejects and the
\* handler leaves through the exception. (A response that is not ok is only
\* logged, lines 304-306: the handler goes on as after a delivery.)
SendThrows(w) ==
  /\ slots' = [slots EXCEPT ![w] =
       [@ EXCEPT !.pc = "failed",
                 !.trace = Append(@, [op |-> "send_failed", what |-> "sendMessage"])]]
  /\ UNCHANGED <<user_state, expenses, clock, call>>

SendFails(w) == AboutToSend(w) /\ SendThrows(w)

\* A clock failure answered with a row dated at the epoch.
ClockFallsBack(w, r) ==
  /\ slots' = [slots EXCEPT ![w] =
       [r EXCEPT !.pc = "failed",
                 !.trace = Append(@, [op |-> "clock_failed", what |-> "nowSgLocal"])]]
  /\ expenses' = insertExpense(expenses, nowSgLocal(0), r.userId, r.state.category, 0)
  /\ UNCHANGED <<user_state, clock, call>>

\* nowSgLocal lines 102-104: a part of the date is missing and the invocation
\* r of worker w leaves through the exception.
ClockThrows(w, r) ==
  /\ slots' = [slots EXCEPT ![w] =
       [r EXCEPT !.pc = "failed",
                 !.trace = Append(@, [op |-> "clock_failed", what |-> "nowSgLocal"])]]
  /\ UNCHANGED <<user_state, expenses, clock, call>>

\* insertExpense reads the clock before its INSERT (line 179); handleToday
\* and handleMonth read it first of all (lines 472, 507).
ClockFails(w) ==
  /\ \/ /\ slots[w].pc = "got_state"
        /\ AwaitingAmount(slots[w].state) /\ isFinite(Number(slots[w].text))
     \/ slots[w].pc = "cleared" /\ firstToken(slots[w].text) \in {T_today, T_month}
  /\ ClockThrows(w, slots[w])

\* apiDailySummary without a date (line 613) and apiMonthlySummary (line 636)
\* read the clock before any query.
ClockFailsApi(w) ==
  /\ ~Busy(w)
  /\ \E via \in {"api_daily", "api_monthly"} : ClockThrows(w, ApiSlot(via, <<Null, Null>>))

FailUpdates ==
  {Msg(1, 1, t) : t \in {T_add, T_start, T_today, T_month, T_Meals, T_1250, T_abc}}

DeliverFail == \E u \in FailUpdates : HandleUpdate(1, u)

CommandClearFails == \E u \in FailUpdates : ClearFails(1, u)

NextFail ==
  \/ DeliverFail \/ Resume(1) \/ CommandClearFails \/ AddSetFails(1)
  \/ ChooseSetFails(1) \/ InsertFails(1) \/ AmountClearFails(1)
  \/ SendFails(1) \/ ClockFails(1) \/ ClockFailsApi(1) \/ Tick

\* One handler at a time, any storage write of which may throw.
SpecFail == Init /\ [][NextFail]_vars

\* ----------------------------------------------------------- replays ----
\* Two members send the texts of a conversation, one update after another,
\* and one finished invocation is kept, with the tables and the clock it
\* left, to compare a later one with.

ReplayUpdates ==
  {Msg(1, 1, t) : t \in {T_add, T_today, T_month, T_Meals, T_1250}}
    \cup {Msg(2, 2, T_add)}

DeliverReplay == \E u \in ReplayUpdates : HandleUpdate(1, u)

\* The invocation w has finished is kept.
Remember(w) ==
  /\ call = NoCall
  /\ slots[w].pc = "done"
  /\ call' = [fn |-> "remember", args |-> <<slots[w]>>,
              result |-> <<user_state, expenses, clock>>]
  /\ UNCHANGED <<user_state, expenses, clock, slots>>

\* The summaries asked for between the updates: the daily one for today and
\* for a given date, the monthly one for the current month.
AskDailyReplay == \E d \in {Null, T_date} : ApiDailySummary(1, d)

AskMonthlyReplay == ApiMonthlySummary(1, Null, Null)

NextReplay ==
  \/ DeliverReplay \/ Resume(1) \/ AskDailyReplay \/ AskMonthlyReplay \/ ResumeApi(1)
  \/ Remember(1) \/ Tick

SpecReplay == Init /\ [][NextReplay]_vars

\* ------------------------------------------------------------- fetch ----

\* env.TELEGRAM_WEBHOOK_SECRET and env.TELEGRAM_HEADER_SECRET.
TELEGRAM_WEBHOOK_SECRET == "path-secret"

TELEGRAM_HEADER_SECRET == <<"h", "d", "r">>

\* `/telegram-webhook/${env.TELEGRAM_WEBHOOK_SECRET}`, a path being the
\* sequence of its segments.
webhookPath == <<"telegram-webhook", TELEGRAM_WEBHOOK_SECRET>>

\* A header check that lets every request through.
headerMatchesAlways(headerToken) == TRUE

\* Line 706: headerToken !== env.TELEGRAM_HEADER_SECRET, headerToken being
\* the header's value or Null.
headerMatches(headerToken) == headerToken = TELEGRAM_HEADER_SECRET

\* A request: its method, its path, the value of the header
\* X-Telegram-Bot-Api-Secret-Token (Null when absent), its JSON body and its
\* query parameters date, year and month.
Request(method, path, header, update, query) ==
  [method |-> method, path |-> path, header |-> header, update |-> update, query |-> query]

\* Requests to the webhook path and to a guessed one, with and without the
\* right header, and requests to the other paths.
Requests ==
  {Request(m, p, h, Msg(1, 1, t), <<Null, Null, Null>>) :
     m \in {"GET", "POST"},
     p \in {webhookPath, <<"telegram-webhook", "guess">>, <<"telegram-webhook">>},
     h \in {Null, TELEGRAM_HEADER_SECRET, T_abc},
     t \in {T_add, T_today, T_month, T_Meals, T_1250}}
  \cup
  {Request(m, p, h, Msg(1, 1, T_add), q) :
     m \in {"GET", "POST"},
     p \in {<<"api", "summary", "daily">>, <<"api", "summary", "monthly">>, <<"healthz">>,
            <<"api", "expenses">>},
     h \in {Null, TELEGRAM_HEADER_SECRET},
     q \in {<<Null, Null, Null>>, <<T_date, Null, <<"1", "3">>>>}}

\* A request arrives at worker w.
Receive(w) ==
  /\ ~Busy(w)
  /\ \E req \in Requests : call' = [fn |-> "fetch", args |-> <<req>>, result |-> <<>>]
  /\ slots' = [slots EXCEPT ![w] = IdleSlot]
  /\ UNCHANGED <<user_state, expenses, clock>>

\* fetch returns a response without calling a handler.
Respond(w, response) ==
  /\ slots' = [slots EXCEPT ![w] =
       [ApiSlot("http", <<>>) EXCEPT !.pc = "done", !.response = response]]
  /\ UNCHANGED <<user_state, expenses, clock, call>>

\* fetch (lines 696-725) for the request received: a POST to the webhook path
\* is answered 401 when the header does not match and is handed to
\* handleTelegramUpdate otherwise; a GET of a summary path runs the summary; a
\* GET of /healthz gets the health payload; anything else gets 404.
Route(w) ==
  /\ call.fn = "fetch"
  /\ slots[w].pc = "idle"
  /\ IF call.args[1].method = "POST" /\ call.args[1].path = webhookPath
     THEN IF ~headerMatches(call.args[1].header)
          THEN Respond(w, [status |-> 401, body |-> "Unauthorized"])
          ELSE HandleUpdate(w, call.args[1].update)
     ELSE IF call.args[1].method = "GET" /\ call.args[1].path = <<"api", "summary", "daily">>
     THEN ApiDailySummary(w, call.args[1].query[1])
     ELSE IF call.args[1].method = "GET" /\ call.args[1].path = <<"api", "summary", "monthly">>
     THEN ApiMonthlySummary(w, call.args[1].query[2], call.args[1].query[3])
     ELSE IF call.args[1].method = "GET" /\ call.args[1].path = <<"healthz">>
     THEN Respond(w, jsonResponse([status |-> "ok"], 200))
     ELSE Respond(w, [status |-> 404, body |-> "Not found"])

\* Line 710: handleTelegramUpdate has returned and fetch answers ok.
WebhookReturn(w) ==
  /\ slots[w].via = "telegram" /\ slots[w].pc = "done" /\ slots[w].response.status = 0
  /\ slots' = [slots EXCEPT ![w] = [@ EXCEPT !.response = jsonResponse([ok |-> TRUE], 200)]]
  /\ UNCHANGED <<user_state, expenses, clock, call>>

NextFetch ==
  Receive(1) \/ Route(1) \/ Resume(1) \/ ResumeApi(1) \/ WebhookReturn(1) \/ Tick

\* One request at a time through the worker's entry point.
SpecFetch == Init /\ [][NextFetch]_vars

\* ------------------------------------------------------------ claims -----
\* What the claims speak of, stated without the handler's own helpers.

\* The ids the configured allow-list "1, 2,x" names.
ConfiguredIds == {1, 2}

StateRows(us, userId) == {x \in us : x.user_id = userId}

ChoosingRow(userId) == [user_id |-> userId, step |-> "choose_category", category |-> Null]

AwaitingRow(userId, category) ==
  [user_id |-> userId, step |-> "await_amount", category |-> category]

\* The update of invocation r came from an allow-listed sender in a chat.
FromMember(r) == r.update.message /\ r.update.chat # 0 /\ r.update.from \in ConfiguredIds

Finished(r) == r.pc = "done"

IsCommand(r) == r.text # <<>> /\ r.text[1] = "/"

\* The sender was in AwaitingAmount when the update arrived.
WasAwaiting(r) ==
  \E x \in StateRows(r.pre_us, r.userId) : x.step = "await_amount" /\ x.category # Null

WasChoosing(r) == StateRows(r.pre_us, r.userId) = {ChoosingRow(r.userId)}

WasIdle(r) == StateRows(r.pre_us, r.userId) = {}

AllDigits(s) == s # <<>> /\ \A i \in 1..Len(s) : s[i] \in SeqRange(DigitChars)

\* A finite decimal numeral: an optional minus sign, digits, and optionally a
\* point followed by digits.
IsDecimalNumeral(t) ==
  LET body == IF t # <<>> /\ t[1] = "-" THEN Tail(t) ELSE t
  IN \/ AllDigits(body)
     \/ \E i \in 2..(Len(body) - 1) :
          /\ body[i] = "."
          /\ AllDigits(SubSeq(body, 1, i - 1))
          /\ AllDigits(SubSeq(body, i + 1, Len(body)))

DigitValue(c) == (CHOOSE i \in 1..10 : DigitChars[i] = c) - 1

RECURSIVE WholeValue(_)
WholeValue(s) ==
  IF s = <<>> THEN 0 ELSE 10 * WholeValue(SubSeq(s, 1, Len(s) - 1)) + DigitValue(s[Len(s)])

\* The value of a decimal numeral with at most two fraction digits, in
\* hundredths.
NumeralValue(t) ==
  LET neg == t[1] = "-"
      body == IF neg THEN Tail(t) ELSE t
      dot == IF \E i \in 1..Len(body) : body[i] = "."
             THEN CHOOSE i \in 1..Len(body) : body[i] = "." ELSE Len(body) + 1
      frac == SubSeq(body, dot + 1, Len(body))
      hundredths == IF Len(frac) = 0 THEN 0
                    ELSE IF Len(frac) = 1 THEN 10 * DigitValue(frac[1])
                    ELSE 10 * DigitValue(frac[1]) + DigitValue(frac[2])
      abs == 100 * WholeValue(SubSeq(body, 1, dot - 1)) + hundredths
  IN IF neg THEN 0 - abs ELSE abs

\* C1: when a member who is in AwaitingAmount with pending category C sends a
\* decimal numeral A, the finished handler has added exactly one expense row,
\* with category C, amount A and the sender's id, every earlier row is as it
\* was, and the sender has no state row.
Thm_C1_AmountRecorded ==
  \A w \in Workers :
    LET r == slots[w]
    IN (Finished(r) /\ FromMember(r) /\ WasAwaiting(r) /\ IsDecimalNumeral(TextRaw(r.update)))
       => /\ \E row \in expenses \ r.pre_ex :
               /\ expenses = r.pre_ex \cup {row}
               /\ row.user_id = r.update.from
               /\ row.amount = NumeralValue(TextRaw(r.update))
               /\ \E x \in StateRows(r.pre_us, r.userId) : row.category = x.category
          /\ StateRows(user_state, r.update.from) = {}

\* A negative numeral recorded while another expense row already exists.
Wit_C1_AmountRecorded ==
  \E w \in Workers :
    LET r == slots[w]
    IN /\ Finished(r) /\ FromMember(r) /\ WasAwaiting(r)
       /\ TextRaw(r.update) = T_neg5
       /\ r.pre_ex # {}
       /\ Cardinality(expenses) = Cardinality(r.pre_ex) + 1

\* C2: when a member who is in AwaitingAmount sends free text that is not a
\* decimal numeral, the finished handler has written no expense row and the
\* state row is as it was.
Cex_C2_NonNumeralIgnored ==
  \A w \in Workers :
    LET r == slots[w]
    IN (Finished(r) /\ FromMember(r) /\ WasAwaiting(r) /\ ~IsCommand(r)
          /\ ~IsDecimalNumeral(r.text))
       => expenses = r.pre_ex /\ user_state = r.pre_us

\* C3: for a member in ChoosingCategory, free text moves the state row to
\* AwaitingAmount with the text as pending category exactly when the text is
\* the name of a configured category, and otherwise leaves the ChoosingCategory
\* row; no expense is written either way.
Cex_C3_CategoryChoice ==
  \A w \in Workers :
    LET r == slots[w]
    IN (Finished(r) /\ FromMember(r) /\ WasChoosing(r) /\ ~IsCommand(r))
       => /\ expenses = r.pre_ex
          /\ IF r.text \in CategoryNames
             THEN StateRows(user_state, r.userId) = {AwaitingRow(r.userId, r.text)}
             ELSE StateRows(user_state, r.userId) = {ChoosingRow(r.userId)}

\* C4: for a command of a member, the sender's state row is gone once the
\* clear has run and before the command is dispatched; for a command other
\* than /add it stays gone until the handler has finished, whatever the state
\* was, and the command writes no expense row.
Thm_C4_CommandResets ==
  \A w \in Workers :
    LET r == slots[w]
    IN (FromMember(r) /\ IsCommand(r))
       => /\ r.pc = "cleared" => StateRows(user_state, r.userId) = {}
          /\ (r.pc # "idle" /\ firstToken(r.text) # T_add)
               => StateRows(user_state, r.userId) = {} /\ expenses = r.pre_ex

\* /today has finished for a sender who was in AwaitingAmount.
Wit_C4_CommandResets ==
  \E w \in Workers :
    LET r == slots[w]
    IN Finished(r) /\ FromMember(r) /\ r.text = T_today /\ WasAwaiting(r)

\* C5: after /add has been handled, the sender's state row is ChoosingCategory
\* without a category, whatever the state was before.
Thm_C5_AddChooses ==
  \A w \in Workers :
    LET r == slots[w]
    IN (Finished(r) /\ FromMember(r) /\ IsCommand(r) /\ firstToken(r.text) = T_add)
       => StateRows(user_state, r.userId) = {ChoosingRow(r.userId)}

\* /add (here with trailing words) has finished for a sender who was in
\* AwaitingAmount.
Wit_C5_AddChooses ==
  \E w \in Workers :
    LET r == slots[w]
    IN /\ Finished(r) /\ FromMember(r) /\ r.update.text = T_addArgs /\ WasAwaiting(r)
       /\ StateRows(user_state, r.userId) = {ChoosingRow(r.userId)}

\* C6: free text of a member who has no state row only gets the usage hint:
\* the handler reads the state, sends the hint, and leaves both tables as they
\* were.
Thm_C6_IdleFreeText ==
  \A w \in Workers :
    LET r == slots[w]
    IN (Finished(r) /\ FromMember(r) /\ ~IsCommand(r) /\ WasIdle(r))
       => /\ r.trace = <<Db("getUserState"), Send("usage_hint")>>
          /\ user_state = r.pre_us
          /\ expenses = r.pre_ex

\* An idle member has sent a category name while the tables hold other rows.
Wit_C6_IdleFreeText ==
  \E w \in Workers :
    LET r == slots[w]
    IN /\ Finished(r) /\ FromMember(r) /\ r.text = T_Meals /\ WasIdle(r)
       /\ r.pre_us # {} /\ r.pre_ex # {}

\* C7: in every storage state reached by interleaved handlers, no user has
\* two state rows, and a state row carries a category exactly when its step is
\* await_amount.
Thm_C7_StateRowShape ==
  /\ \A x, y \in user_state : x.user_id = y.user_id => x = y
  /\ \A x \in user_state : (x.category # Null) <=> (x.step = "await_amount")

\* Two handlers for the same sender have interleaved: worker 1 read the
\* ChoosingCategory row, worker 2 then handled /add up to its write, and worker
\* 1 wrote the AwaitingAmount row over it.
Wit_C7_StateRowShape ==
  /\ slots[1].pc = "category_set"
  /\ slots[2].pc = "add_set"
  /\ slots[1].userId = slots[2].userId
  /\ StateRows(user_state, slots[1].userId) = {AwaitingRow(slots[1].userId, T_Meals)}

\* C8: the category of every expense row, and every category held in a state
\* row, is the name of a configured category.
Cex_C8_CategoriesRegistered ==
  /\ \A e \in expenses : e.category \in CategoryNames
  /\ \A x \in user_state : x.category # Null => x.category \in CategoryNames

\* C9: every step of the webhook handlers and of the HTTP requests keeps each
\* expense row that exists, field for field: rows are only added.
Thm_C9_AppendOnly == [][expenses \subseteq expenses']_vars

\* The table holds two rows, and a monthly HTTP summary that started when it
\* held one has finished.
Wit_C9_AppendOnly ==
  /\ Cardinality(expenses) = 2
  /\ \E w \in Workers :
       /\ slots[w].via = "api_monthly" /\ Finished(slots[w])
       /\ Cardinality(slots[w].pre_ex) = 1 /\ slots[w].response.status = 200

\* C10: an update from a sender outside the allow-list, or without sender or
\* chat, is dropped: the handler makes no storage call, sends nothing and
\* leaves both tables as they were.
Thm_C10_StrangerDropped ==
  \A w \in Workers :
    LET r == slots[w]
    IN (r.pc # "idle" /\ ~FromMember(r))
       => r.pc = "done" /\ r.trace = <<>> /\ user_state = r.pre_us /\ expenses = r.pre_ex

\* User 3 has sent /add while both tables hold rows.
Wit_C10_StrangerDropped ==
  \E w \in Workers :
    LET r == slots[w]
    IN /\ Finished(r) /\ r.update.from = 3 /\ r.update.text = T_add
       /\ user_state # {} /\ expenses # {}

\* The days of year y before its month m.
RECURSIVE DaysBeforeMonth(_, _)
DaysBeforeMonth(y, m) == IF m = 1 THEN 0 ELSE DaysBeforeMonth(y, m - 1) + DaysOf(y, m - 1)

\* The ordinal of a Gregorian date, 0001-01-01 (a Monday) being day 1.
Ordinal(y, m, d) ==
  365 * (y - 1) + ((y - 1) \div 4) - ((y - 1) \div 100) + ((y - 1) \div 400)
    + DaysBeforeMonth(y, m) + d

\* The date is a Saturday or a Sunday.
IsWeekendDay(y, m, d) == Ordinal(y, m, d) % 7 \in {6, 0}

\* The Saturdays and Sundays of month m of year y.
WeekendDaysIn(y, m) == Cardinality({d \in 1..DaysOf(y, m) : IsWeekendDay(y, m, d)})

\* The names of the categories of a kind.
KindNames(kind) ==
  {CATEGORIES[i].name : i \in {j \in DOMAIN CATEGORIES : CATEGORIES[j].type = kind}}

\* The budget table t holds for name n, or 0.
RECURSIVE BudgetOf(_, _)
BudgetOf(t, n) ==
  IF t = <<>> THEN 0
  ELSE IF Head(t).name = n THEN Head(t).budget ELSE BudgetOf(Tail(t), n)

RECURSIVE SumOver(_, _)
SumOver(f, keys) ==
  IF keys = {} THEN 0
  ELSE LET k == CHOOSE x \in keys : TRUE IN f[k] + SumOver(f, keys \ {k})

\* The sum of the amounts of the rows of ex with local date `date` in the
\* categories of a kind.
SpentOn(ex, date, kind) ==
  LET rows == {e \in ex : e.ts_sg_date = date /\ e.category \in KindNames(kind)}
  IN SumOver([e \in rows |-> e.amount], rows)

\* The same for the rows with local month `month`.
SpentIn(ex, month, kind) ==
  LET rows == {e \in ex : e.ts_sg_month = month /\ e.category \in KindNames(kind)}
  IN SumOver([e \in rows |-> e.amount], rows)

\* s names a date of the calendar of 2025 in the form YYYY-MM-DD.
IsCalendarDate(s) == \E m \in 1..12 : \E d \in 1..DaysOf(2025, m) : s = DateString(2025, m, d)

\* The daily budget of a date of 2025, in hundredths.
BudgetOfDate(s) ==
  IF \E m \in 1..12 : \E d \in 1..DaysOf(2025, m) :
       s = DateString(2025, m, d) /\ IsWeekendDay(2025, m, d)
  THEN 8000 ELSE 5000

\* C11: a daily summary for a calendar date D reports as spent the sum of the
\* amounts of the expense rows of date D in daily-kind categories, negative
\* amounts included and rows of other kinds left out, and as remaining the
\* daily budget of D less that sum; /today sums the same rows.
Thm_C11_DailySummary ==
  \A w \in Workers :
    LET r == slots[w]
    IN /\ (r.via = "api_daily" /\ Finished(r) /\ r.response.status = 200
             /\ IsCalendarDate(r.response.body.date))
          => /\ r.response.body.spent_daily = SpentOn(r.pre_ex, r.response.body.date, "daily")
             /\ r.response.body.budget_daily = BudgetOfDate(r.response.body.date)
             /\ r.response.body.remaining_daily
                  = BudgetOfDate(r.response.body.date) - r.response.body.spent_daily
       /\ (r.via = "telegram" /\ Finished(r) /\ FromMember(r) /\ r.text = T_today)
          => r.sums[1].total = SpentOn(r.pre_ex, r.bucket, "daily")

\* A daily summary of a day on which a refund of 5 in a daily category and an
\* expense in a category of another kind were recorded: spent is -5 and
\* remaining 55.
Wit_C11_DailySummary ==
  \E w \in Workers :
    LET r == slots[w]
    IN /\ r.via = "api_daily" /\ Finished(r) /\ r.response.status = 200
       /\ \E e, f \in r.pre_ex :
            /\ e.ts_sg_date = r.response.body.date /\ f.ts_sg_date = r.response.body.date
            /\ e.category = T_Meals /\ e.amount = -500
            /\ f.category \in {T_Groceries, T_Other}
       /\ r.response.body.spent_daily = -500
       /\ r.response.body.remaining_daily = 5500

\* C12: in a monthly summary the tracked spending is spent daily plus spent
\* monthly, the tracked budget is the daily-bucket budget of the month plus
\* the fixed budget total 968, and remaining is their difference; the three
\* sums are those of the month's rows of each kind, so that a row of an
\* other-kind category counts in spent_other only.
Thm_C12_MonthlyTotals ==
  \A w \in Workers :
    LET r == slots[w]
    IN (r.via = "api_monthly" /\ Finished(r) /\ r.response.status = 200)
       => /\ r.response.body.total_spent_tracked
               = r.response.body.spent_daily + r.response.body.spent_monthly
          /\ r.response.body.total_budget_tracked
               = r.response.body.monthly_daily_budget + 96800
          /\ r.response.body.remaining_tracked
               = r.response.body.total_budget_tracked - r.response.body.total_spent_tracked
          /\ r.response.body.spent_daily = SpentIn(r.pre_ex, r.bucket, "daily")
          /\ r.response.body.spent_monthly = SpentIn(r.pre_ex, r.bucket, "monthly")
          /\ r.response.body.spent_other = SpentIn(r.pre_ex, r.bucket, "other")
          /\ r.response.body.monthly_daily_budget
               = (r.response.body.weekdays * 5000) + (r.response.body.weekends * 8000)

\* A monthly summary of a month with a row in Other and a row in a monthly
\* category: the tracked spending is the monthly row alone.
Wit_C12_MonthlyTotals ==
  \E w \in Workers :
    LET r == slots[w]
    IN /\ r.via = "api_monthly" /\ Finished(r) /\ r.response.status = 200
       /\ \E e, f \in r.pre_ex :
            /\ e.ts_sg_month = r.bucket /\ f.ts_sg_month = r.bucket
            /\ e.category = T_Other /\ f.category = T_Groceries
            /\ r.response.body.spent_other = e.amount
            /\ r.response.body.total_spent_tracked = f.amount

Cex_C14_DailyBudgetByWeekday ==
  call.fn = "dailyBudgetForSgDateString"
    => call.result = IF IsWeekendDay(call.args[1], call.args[2], call.args[3])
                     THEN 8000 ELSE 5000

\* C15: for every year and month, the weekdays and weekends counted add up
\* to the Gregorian length of the month, and the weekends are its Saturdays
\* and Sundays.
Cex_C15_CountsMatchCalendar ==
  call.fn = "countWeekdaysWeekends"
    => /\ call.result.weekdays + call.result.weekends = DaysOf(call.args[1], call.args[2])
       /\ call.result.weekends = WeekendDaysIn(call.args[1], call.args[2])

\* The years whose every month C16 is checked for.
FullYears == {2024, 2025}

\* C16: for every month of 2024 and 2025 the monthly daily-bucket budget is
\* the number of weekdays times 50 plus the number of weekend days times 80;
\* for March 2025 that is 21 and 10, and 1850.
Thm_C16_BucketBudget ==
  /\ (call.fn = "monthlyDailyBucketBudget" /\ call.args[1] \in FullYears)
       => call.result =
            (DaysOf(call.args[1], call.args[2]) - WeekendDaysIn(call.args[1], call.args[2])) * 5000
              + WeekendDaysIn(call.args[1], call.args[2]) * 8000
  /\ (call.fn = "monthlyDailyBucketBudget" /\ call.args = <<2025, 3>>)
       => /\ call.result = 185000
          /\ WeekendDaysIn(2025, 3) = 10 /\ DaysOf(2025, 3) - WeekendDaysIn(2025, 3) = 21

\* The function has been applied to March 2025.
Wit_C16_BucketBudget ==
  call.fn = "monthlyDailyBucketBudget" /\ call.args = <<2025, 3>> /\ call.result = 185000

\* C17: a daily summary asked for with an explicit date that is not a date of
\* the calendar in the form YYYY-MM-DD is answered with the invalid-date
\* error, before any storage query.
Cex_C17_InvalidDateRejected ==
  \A w \in Workers :
    LET r == slots[w]
    IN (r.via = "api_daily" /\ Finished(r) /\ r.query[1] # Null /\ ~IsCalendarDate(r.query[1]))
       => r.response.status = 400 /\ r.trace = <<>>

\* The year or month of the query is no finite decimal number, or the month is
\* outside 1..12.
BadMonthQuery(q) ==
  \/ q[1] # Null /\ ~IsDecimalNumeral(q[1])
  \/ q[2] # Null /\ (~IsDecimalNumeral(q[2]) \/ NumeralValue(q[2]) < 100
                       \/ NumeralValue(q[2]) > 1200)

Cex_C19_FailedWriteKeepsState ==
  \A w \in Workers :
    LET r == slots[w]
    IN (r.pc = "failed" /\ r.trace[Len(r.trace)].what \in {"clearUserState", "setUserState"})
       => /\ StateRows(user_state, r.userId) = StateRows(r.pre_us, r.userId)
          /\ \A i \in DOMAIN r.trace : r.trace[i].op # "send"

\* Both handlers have returned, each having handled a numeral sent by the same
\* member and read the same await_amount row.
BothReadAwaiting ==
  /\ slots[1].via = "telegram" /\ slots[2].via = "telegram"
  /\ Finished(slots[1]) /\ Finished(slots[2])
  /\ FromMember(slots[1]) /\ FromMember(slots[2])
  /\ slots[1].userId = slots[2].userId
  /\ slots[1].state = slots[2].state
  /\ slots[1].state.found /\ slots[1].state.step = "await_amount"
  /\ slots[1].state.category \in KindNames("daily") \cup KindNames("monthly") \cup KindNames("other")
  /\ IsDecimalNumeral(slots[1].text) /\ IsDecimalNumeral(slots[2].text)

\* C20: two deliveries of an amount for the same user that are handled
\* concurrently and both read the state AwaitingAmount both insert: two
\* expense rows come of the one category choice (exactly two when no other
\* insert fell between the two deliveries), and the state row is absent
\* afterwards.
Thm_C20_ConcurrentAmounts ==
  BothReadAwaiting =>
    LET new == expenses \ (slots[1].pre_ex \cap slots[2].pre_ex)
        Mine(e, r) == /\ e \notin r.pre_ex
                      /\ e.user_id = r.userId /\ e.category = r.state.category
                      /\ e.amount = NumeralValue(r.text)
    IN /\ \E e, f \in expenses : e # f /\ Mine(e, slots[1]) /\ Mine(f, slots[2])
       /\ slots[1].pre_ex = slots[2].pre_ex
          => /\ Cardinality(new) = 2
             /\ \A e \in new : Mine(e, slots[1]) \/ Mine(e, slots[2])
       /\ StateRows(user_state, slots[1].userId) = {}

\* Two deliveries of 12.50 have both been handled against one await_amount
\* row, the second read made before the first handler's insert.
Wit_C20_ConcurrentAmounts ==
  /\ BothReadAwaiting
  /\ slots[1].pre_ex = slots[2].pre_ex
  /\ slots[1].text = T_1250 /\ slots[2].text = T_1250
  /\ Cardinality(expenses) = 2

\* C21: two runs of the handler for the same user that start from the same
\* state row of that user and receive the same text end with the same state
\* row of that user, whatever the other users' rows, the expense table and the
\* clock are.
Thm_C21_TransitionDeterministic ==
  \A w \in Workers :
    LET r == slots[w]
    IN (/\ call.fn = "remember"
        /\ r.via = "telegram" /\ Finished(r) /\ FromMember(r)
        /\ call.args[1].via = "telegram" /\ FromMember(call.args[1])
        /\ call.args[1].userId = r.userId
        /\ call.args[1].update.text = r.update.text
        /\ StateRows(call.args[1].pre_us, r.userId) = StateRows(r.pre_us, r.userId))
       => StateRows(user_state, r.userId) = StateRows(call.result[1], r.userId)

\* A category choice handled twice from the same choose_category row, the
\* second time with another user's row, an expense and a day more than the
\* first time.
Wit_C21_TransitionDeterministic ==
  \E w \in Workers :
    LET r == slots[w]
    IN /\ call.fn = "remember"
       /\ r.via = "telegram" /\ Finished(r) /\ FromMember(r)
       /\ FromMember(call.args[1])
       /\ call.args[1].userId = r.userId
       /\ call.args[1].update.text = r.update.text
       /\ StateRows(call.args[1].pre_us, r.userId) = StateRows(r.pre_us, r.userId)
       /\ StateRows(r.pre_us, r.userId) # StateRows(user_state, r.userId)
       /\ \E v \in ConfiguredIds :
            v # r.userId /\ StateRows(call.args[1].pre_us, v) # StateRows(r.pre_us, v)
       /\ call.args[1].pre_ex # r.pre_ex
       /\ call.result[3] < clock

\* The request is a POST to the webhook path that carries the secret header.
IsWebhookDelivery(req) ==
  /\ req.method = "POST"
  /\ req.path = <<"telegram-webhook", TELEGRAM_WEBHOOK_SECRET>>
  /\ req.header = TELEGRAM_HEADER_SECRET

\* C22: a request that is not a webhook POST with both secrets is answered
\* with the health payload, 401 or 404, none of which holds data of the
\* expense table, and causes no storage access.
Cex_C22_NoPublicApi ==
  \A w \in Workers :
    (call.fn = "fetch" /\ slots[w].pc # "idle" /\ ~IsWebhookDelivery(call.args[1]))
    => /\ slots[w].trace = <<>>
       /\ slots[w].pc = "done"
       /\ \/ slots[w].response.status \in {401, 404}
          \/ /\ slots[w].response.status = 200
             /\ DOMAIN slots[w].response.body = {"status"}

\* C23: the update of a request is handled only when the request is a POST to
\* the webhook path with the secret header; a POST to the webhook path with
\* the header missing or wrong is answered 401 without a storage access or a
\* message, and a POST to another webhook path is answered 404.
Thm_C23_WebhookSecrets ==
  \A w \in Workers :
    LET r == slots[w]
    IN (call.fn = "fetch" /\ r.pc # "idle")
       => /\ r.via = "telegram" => IsWebhookDelivery(call.args[1])
          /\ (/\ call.args[1].method = "POST"
              /\ call.args[1].path = <<"telegram-webhook", TELEGRAM_WEBHOOK_SECRET>>
              /\ call.args[1].header # TELEGRAM_HEADER_SECRET)
             => /\ r.pc = "done" /\ r.response.status = 401 /\ r.trace = <<>>
                /\ user_state = r.pre_us /\ expenses = r.pre_ex
          /\ (/\ call.args[1].path[1] = "telegram-webhook"
              /\ call.args[1].path # <<"telegram-webhook", TELEGRAM_WEBHOOK_SECRET>>)
             => /\ r.pc = "done" /\ r.response.status = 404 /\ r.trace = <<>>

\* With a state row and an expense stored, a POST of an amount to the webhook
\* path with a guessed header has been answered 401.
Wit_C23_WebhookSecrets ==
  \E w \in Workers :
    /\ call.fn = "fetch" /\ slots[w].pc = "done"
    /\ call.args[1].method = "POST"
    /\ call.args[1].path = <<"telegram-webhook", TELEGRAM_WEBHOOK_SECRET>>
    /\ call.args[1].header = T_abc
    /\ call.args[1].update.text = T_1250
    /\ slots[w].response.status = 401
    /\ AwaitingRow(1, T_Meals) \in user_state /\ expenses # {}

\* The rows of table ex in bucket b (a date for sumForDate, a month for
\* sumForMonth) in category c.
BucketRows(fn, ex, b, c) ==
  {e \in ex : /\ e.category = c
              /\ IF fn = "sumForDate" THEN e.ts_sg_date = b ELSE e.ts_sg_month = b}

\* C24: the per-category sum for a bucket and a category list maps exactly
\* the listed categories that have a row in the bucket, each to the sum of its
\* amounts, and gives as total the sum of the mapping's values; for an empty
\* list it gives total 0 and an empty mapping without running a query.
Thm_C24_GroupedSums ==
  call.fn \in {"sumForDate", "sumForMonth"}
    => /\ DOMAIN call.result.sum.byCategory
            = {c \in SeqRange(call.args[3]) :
                 BucketRows(call.fn, call.args[1], call.args[2], c) # {}}
       /\ \A c \in DOMAIN call.result.sum.byCategory :
            call.result.sum.byCategory[c]
              = SumOver([e \in BucketRows(call.fn, call.args[1], call.args[2], c) |-> e.amount],
                        BucketRows(call.fn, call.args[1], call.args[2], c))
       /\ call.result.sum.total
            = SumOver(call.result.sum.byCategory, DOMAIN call.result.sum.byCategory)
       /\ call.args[3] = <<>>
            => /\ call.result.sum.total = 0
               /\ DOMAIN call.result.sum.byCategory = {}
               /\ ~call.result.queried

\* A monthly sum over a list of three categories: one has rows that cancel
\* and is mapped to 0, one has a row, one has none and is absent.
Wit_C24_GroupedSums ==
  /\ call.fn = "sumForMonth"
  /\ call.args[3] = <<T_Groceries, T_Meals, T_Utilities>>
  /\ DOMAIN call.result.sum.byCategory = {T_Groceries, T_Meals}
  /\ call.result.sum.byCategory[T_Meals] = 0
  /\ call.result.sum.total = 300
  /\ \E e \in call.args[1] : e.ts_sg_month # call.args[2]

RECURSIVE Flatten(_)
Flatten(rows) == IF rows = <<>> THEN <<>> ELSE Head(rows) \o Flatten(Tail(rows))

\* C28: the rows of the category keyboard, concatenated, are the category
\* names in declaration order, each once; no row is empty or longer than 3,
\* and every row but the last has exactly 3 names.
Thm_C28_KeyboardRows ==
  call.fn = "buildCategoryKeyboard"
    => /\ Flatten(call.result.keyboard) = call.args[1]
       /\ \A n \in SeqRange(call.args[1]) :
            Cardinality({i \in DOMAIN Flatten(call.result.keyboard) :
                           Flatten(call.result.keyboard)[i] = n}) = 1
       /\ \A i \in DOMAIN call.result.keyboard :
            /\ Len(call.result.keyboard[i]) \in 1..3
            /\ i < Len(call.result.keyboard) => Len(call.result.keyboard[i]) = 3

\* The keyboard of the eight configured categories: three rows, the last of
\* two names.
Wit_C28_KeyboardRows ==
  /\ call.fn = "buildCategoryKeyboard"
  /\ call.args[1] = [i \in 1..Len(CATEGORIES) |-> CATEGORIES[i].name]
  /\ Len(call.result.keyboard) = 3
  /\ Len(call.result.keyboard[3]) = 2
  /\ call.result.keyboard[1] = <<T_Meals, T_Drinks, T_Groceries>>

\* C25: handling a daily or monthly summary request leaves the expense table
\* and every state row as they were, and two daily summaries for the same
\* date with no expense inserted between them are identical.
Thm_C25_SummariesReadOnly ==
  \A w \in Workers :
    LET r == slots[w]
    IN /\ (r.via \in {"api_daily", "api_monthly"} /\ r.pc # "idle")
          => user_state = r.pre_us /\ expenses = r.pre_ex
       /\ (/\ call.fn = "remember"
           /\ r.via = "api_daily" /\ Finished(r) /\ r.response.status = 200
           /\ call.args[1].via = "api_daily" /\ call.args[1].response.status = 200
           /\ call.args[1].response.body.date = r.response.body.date
           /\ call.args[1].pre_ex = r.pre_ex)
          => call.args[1].response = r.response

\* Two daily summaries of a day with an expense, the second asked for after
\* another conversation state was stored and with the date given instead of
\* taken from the clock.
Wit_C25_SummariesReadOnly ==
  \E w \in Workers :
    LET r == slots[w]
    IN /\ call.fn = "remember"
       /\ r.via = "api_daily" /\ Finished(r) /\ r.response.status = 200
       /\ call.args[1].via = "api_daily" /\ call.args[1].response.status = 200
       /\ call.args[1].response.body.date = r.response.body.date
       /\ call.args[1].pre_ex = r.pre_ex
       /\ call.args[1].pre_us # r.pre_us
       /\ call.args[1].query # r.query
       /\ r.response.body.spent_daily = 1250

StorageWrites == {"insertExpense", "setUserState", "clearUserState"}

\* C26: every message of a transition is sent after the transition's storage
\* writes, so that when the delivery of the confirmation of an amount fails,
\* the inserted row is in the table and the sender's state is Idle.
Thm_C26_SendAfterWrites ==
  \A w \in Workers :
    LET r == slots[w]
    IN /\ \A i, j \in DOMAIN r.trace :
            (i < j /\ r.trace[i].op \in {"send", "send_failed"})
            => ~(r.trace[j].op = "db" /\ r.trace[j].what \in StorageWrites)
       /\ (/\ r.pc = "failed" /\ r.trace[Len(r.trace)].op = "send_failed"
           /\ \E i \in DOMAIN r.trace : r.trace[i] = [op |-> "db", what |-> "insertExpense"])
          => /\ \E e \in expenses \ r.pre_ex :
                  /\ e.user_id = r.userId /\ e.category = r.state.category
                  /\ e.amount = r.amount.v
             /\ StateRows(user_state, r.userId) = {}

\* The confirmation of an amount of 12.50 in Meals could not be delivered.
Wit_C26_SendAfterWrites ==
  \E w \in Workers :
    LET r == slots[w]
    IN /\ r.pc = "failed" /\ r.trace[Len(r.trace)].op = "send_failed"
       /\ r.text = T_1250
       /\ AwaitingRow(r.userId, T_Meals) \in r.pre_us
       /\ Len(r.trace) = 4
       /\ \E e \in expenses \ r.pre_ex : e.category = T_Meals /\ e.amount = 1250

\* C27: when the local date cannot be resolved the unit of work aborts:
\* during an amount entry no row is inserted and the state row stays
\* await_amount with its category, and /today, /month and a summary request
\* without a date produce no summary.
Thm_C27_ClockFailureAborts ==
  \A w \in Workers :
    LET r == slots[w]
    IN (r.pc = "failed" /\ r.trace[Len(r.trace)].op = "clock_failed")
       => /\ expenses = r.pre_ex
          /\ \A i \in DOMAIN r.trace : r.trace[i].op # "send"
          /\ r.sums = <<>> /\ r.response.status = 0
          /\ (r.via = "telegram" /\ ~IsCommand(r))
             => /\ StateRows(r.pre_us, r.userId) = {AwaitingRow(r.userId, r.state.category)}
                /\ StateRows(user_state, r.userId) = StateRows(r.pre_us, r.userId)

\* The clock failed during the entry of 12.50 for Meals, with an expense
\* already stored.
Wit_C27_ClockFailureAborts ==
  \E w \in Workers :
    LET r == slots[w]
    IN /\ r.pc = "failed" /\ r.trace[Len(r.trace)].op = "clock_failed"
       /\ r.via = "telegram" /\ r.text = T_1250
       /\ AwaitingRow(r.userId, T_Meals) \in user_state
       /\ expenses # {}

\* The text up to its first blank.
RECURSIVE FirstWord(_)
FirstWord(t) == IF t = <<>> \/ Head(t) = " " THEN <<>> ELSE <<Head(t)>> \o FirstWord(Tail(t))

\* The text sub occurs in the text t.
Contains(t, sub) ==
  \E i \in 1..(Len(t) - Len(sub) + 1) : SubSeq(t, i, i + Len(sub) - 1) = sub

\* The reply each recognized command ends with.
CommandReply(c) ==
  IF c = T_start THEN "start" ELSE IF c = T_add THEN "choose_category"
  ELSE IF c = T_today THEN "today" ELSE "month"

\* C29: a command whose first word is /start, /add, /today or /month gets
\* that command's reply; any other command gets the unknown-command reply,
\* and that reply names each of the four commands.
Cex_C29_CommandSet ==
  \A w \in Workers :
    LET r == slots[w]
    IN (r.via = "telegram" /\ Finished(r) /\ FromMember(r) /\ IsCommand(r))
       => IF FirstWord(r.text) \in {T_start, T_add, T_today, T_month}
          THEN r.trace[Len(r.trace)] = Send(CommandReply(FirstWord(r.text)))
          ELSE /\ r.trace[Len(r.trace)] = Send("unknown_command")
               /\ \A c \in {T_start, T_add, T_today, T_month} : Contains(unknownCommandReply, c)

\* C30: a step of the handling of a message from user U leaves the state
\* rows of every other user as they are, and every expense row it inserts
\* carries user id U, in any interleaving of the handlers.
Thm_C30_PerUserIsolation ==
  [][/\ \A w \in Workers :
          slots'[w] # slots[w]
          => /\ \A x \in user_state \cup user_state' :
                  x.user_id # slots'[w].userId => (x \in user_state /\ x \in user_state')
             /\ \A e \in expenses' \ expenses : e.user_id = slots'[w].userId
     /\ (\A w \in Workers : slots'[w] = slots[w])
          => user_state' = user_state /\ expenses' = expenses]_vars

\* User 1 has recorded an expense through a handler that ran while the
\* handler of user 2's category choice was between its awaits; user 2's row
\* is stored.
Wit_C30_PerUserIsolation ==
  /\ slots[1].via = "telegram" /\ slots[2].via = "telegram"
  /\ slots[1].userId = 1 /\ slots[2].userId = 2
  /\ slots[2].pc = "category_set"
  /\ slots[1].pc \in {"inserted", "amount_cleared", "done"}
  /\ slots[1].text = T_1250
  /\ AwaitingRow(2, T_Meals) \in user_state
  /\ \E e \in expenses : e.user_id = 1 /\ e \notin slots[1].pre_ex

\* --------------------------------------------------- shared summaries ----
\* Two allow-listed users record expenses and ask for /today and /month while
\* the JSON summaries of today and of the current month are requested.

SharedUpdates ==
  {Msg(f, f, t) : f \in {1, 2}, t \in {T_add, T_Meals, T_1250, T_today, T_month}}

DeliverShared == \E u \in SharedUpdates : HandleUpdate(1, u)

AskDailyShared == ApiDailySummary(1, Null)

AskMonthlyShared == ApiMonthlySummary(1, Null, Null)

NextShared ==
  DeliverShared \/ Resume(1) \/ AskDailyShared \/ AskMonthlyShared \/ ResumeApi(1) \/ Tick

SpecShared == Init /\ [][NextShared]_vars

\* The rows of ex recorded by user u, and those recorded by anybody else.
RowsOf(ex, u) == {e \in ex : e.user_id = u}

RowsNotOf(ex, u) == {e \in ex : e.user_id # u}

\* C31: the sums of a summary run over the rows of every user: the figure
\* /today or /month shows to user U is what U's rows of the date or month add
\* up to plus what the rows of every other user add up to, and the JSON
\* summaries report the sum over all rows, whoever recorded them.
Thm_C31_SummariesShared ==
  \A w \in Workers :
    LET r == slots[w]
    IN /\ (r.via = "telegram" /\ Finished(r) /\ FromMember(r) /\ r.text = T_today)
          => r.sums[1].total = SpentOn(RowsOf(r.pre_ex, r.userId), r.bucket, "daily")
                                + SpentOn(RowsNotOf(r.pre_ex, r.userId), r.bucket, "daily")
       /\ (r.via = "telegram" /\ Finished(r) /\ FromMember(r) /\ r.text = T_month)
          => r.sums[1].total = SpentIn(RowsOf(r.pre_ex, r.userId), r.bucket, "daily")
                                + SpentIn(RowsNotOf(r.pre_ex, r.userId), r.bucket, "daily")
       /\ (r.via = "api_daily" /\ Finished(r) /\ r.response.status = 200)
          => \A u \in ConfiguredIds :
               r.response.body.spent_daily
                 = SpentOn(RowsOf(r.pre_ex, u), r.bucket, "daily")
                     + SpentOn(RowsNotOf(r.pre_ex, u), r.bucket, "daily")
       /\ (r.via = "api_monthly" /\ Finished(r) /\ r.response.status = 200)
          => \A u \in ConfiguredIds :
               r.response.body.spent_daily
                 = SpentIn(RowsOf(r.pre_ex, u), r.bucket, "daily")
                     + SpentIn(RowsNotOf(r.pre_ex, u), r.bucket, "daily")

\* User 1 asked for /today on a day on which only user 2 had recorded an
\* expense, of 12.50: the summary shows 12.50 spent.
Wit_C31_SummariesShared ==
  \E w \in Workers :
    LET r == slots[w]
    IN /\ r.via = "telegram" /\ Finished(r) /\ r.userId = 1 /\ r.text = T_today
       /\ RowsOf(r.pre_ex, 1) = {}
       /\ \E e \in r.pre_ex : e.user_id = 2 /\ e.ts_sg_date = r.bucket
       /\ r.sums[1].total = 1250

\* The trace of invocation r holds the storage operation `what`.
Did(r, what) == \E i \in DOMAIN r.trace : r.trace[i] = Db(what)

\* Invocation r handles the update of the remembered invocation again, from
\* the state row the remembered one left to the sender.
ReplaysRemembered(r) ==
  /\ call.fn = "remember"
  /\ call.args[1].via = "telegram" /\ FromMember(call.args[1])
  /\ r.via = "telegram" /\ Finished(r)
  /\ r.update = call.args[1].update

\* C32: an amount message handled again right after its first handling has
\* completed finds the sender Idle, inserts no expense row, leaves the sender
\* Idle and sends the usage hint only; an /add or a category choice handled
\* again, in whatever state, inserts no expense row.
Thm_C32_SequentialReplay ==
  \A w \in Workers :
    LET r == slots[w]
    IN /\ (/\ ReplaysRemembered(r)
           /\ Did(call.args[1], "insertExpense")
           /\ StateRows(r.pre_us, r.userId) = StateRows(call.result[1], r.userId))
          => /\ WasIdle(r)
             /\ expenses = r.pre_ex
             /\ StateRows(user_state, r.userId) = {}
             /\ r.trace = <<Db("getUserState"), Send("usage_hint")>>
       /\ (/\ ReplaysRemembered(r)
           /\ \/ call.args[1].text = T_add
              \/ WasChoosing(call.args[1]) /\ Did(call.args[1], "setUserState"))
          => ~Did(r, "insertExpense") /\ expenses = r.pre_ex

\* The amount 12.50 was recorded and the same message was then handled once
\* more, with the one row of the first handling in the table.
Wit_C32_SequentialReplay ==
  \E w \in Workers :
    LET r == slots[w]
    IN /\ ReplaysRemembered(r)
       /\ Did(call.args[1], "insertExpense")
       /\ r.text = T_1250
       /\ StateRows(r.pre_us, r.userId) = StateRows(call.result[1], r.userId)
       /\ r.pre_ex = call.result[2]
       /\ Cardinality(expenses) = 1
       /\ r.trace[Len(r.trace)] = Send("usage_hint")

\* ----------------------------------------------------------- snapshots ----
\* A monthly summary is requested while the updates of a user who records
\* expenses in a daily and in a monthly category are handled: the handler of
\* the request (worker 1) and the handlers of the updates (worker 2) take
\* turns at their awaits.

SnapshotUpdates ==
  {Msg(1, 1, t) : t \in {T_add, T_Meals, T_Groceries, T_1250, T_today, T_month}}

DeliverSnapshot == \E u \in SnapshotUpdates : HandleUpdate(2, u)

RequestSnapshot == ApiMonthlySummary(1, Null, Null)

NextSnapshot == DeliverSnapshot \/ Resume(2) \/ RequestSnapshot \/ ResumeApi(1)

SpecSnapshot == Init /\ [][NextSnapshot]_vars

\* The expense table as it was when it held the rows up to id k: rows are
\* only ever added, with growing ids.
TableUpTo(k) == {e \in expenses : e.id <= k}

\* C33: the three sums of a monthly summary are the sums over one state of
\* the expense table that existed while the request was handled, also when
\* inserts take place between the three queries.
Cex_C33_MonthlySnapshot ==
  \A w \in Workers :
    LET r == slots[w]
    IN (r.via = "api_monthly" /\ Finished(r) /\ r.response.status = 200)
       => \E k \in 0..MaxExpenses :
            /\ r.pre_ex \subseteq TableUpTo(k)
            /\ r.response.body.spent_daily = SpentIn(TableUpTo(k), r.bucket, "daily")
            /\ r.response.body.spent_monthly = SpentIn(TableUpTo(k), r.bucket, "monthly")
            /\ r.response.body.spent_other = SpentIn(TableUpTo(k), r.bucket, "other")

\* What the daily summaries of the days of month m of 2025 report as spent,
\* added up over the table ex.
SpentOverDaysOf(ex, m) ==
  SumOver([d \in 1..DaysOf(2025, m) |->
             sumForDate(ex, DateString(2025, m, d), DAILY_CATEGORIES).total],
          1..DaysOf(2025, m))

\* C34: the local month of every expense row is the year and month of the
\* row's own local date; hence, for every month that has a row and for the
\* month of every monthly summary, what the monthly summary reports as spent
\* in the daily categories is what the daily summaries of the days of that
\* month report, added up.
Thm_C34_MonthOfDate ==
  /\ \A e \in expenses : e.ts_sg_month = SubSeq(e.ts_sg_date, 1, 7)
  /\ \A m \in 1..12 :
       (\E e \in expenses : e.ts_sg_month = monthKey(2025, m))
       => sumForMonth(expenses, monthKey(2025, m), DAILY_CATEGORIES).total
            = SpentOverDaysOf(expenses, m)
  /\ \A w \in Workers :
       LET r == slots[w]
       IN (r.via = "api_monthly" /\ Finished(r) /\ r.response.status = 200)
          => \A m \in 1..12 :
               r.bucket = monthKey(2025, m)
               => r.response.body.spent_daily = SpentOverDaysOf(r.pre_ex, m)

\* The monthly summary of April 2025 requested with a Meals row of 1 April
\* and one of 31 March in the table: it reports the April row alone.
Wit_C34_MonthOfDate ==
  \E w \in Workers :
    LET r == slots[w]
    IN /\ r.via = "api_monthly" /\ Finished(r) /\ r.response.status = 200
       /\ r.bucket = monthKey(2025, 4)
       /\ \E e, f \in r.pre_ex :
            /\ e.category = T_Meals /\ f.category = T_Meals
            /\ e.ts_sg_date = DateString(2025, 3, 31)
            /\ f.ts_sg_date = DateString(2025, 4, 1)
            /\ r.response.body.spent_daily = f.amount
       /\ r.response.body.spent_daily # 0

\* C35: whenever the handling of an amount has ended, by returning or by the
\* exception of a storage call, after it inserted an expense row for a sender
\* in AwaitingAmount, the sender's state row is no longer await_amount.
Cex_C35_InsertResetsState ==
  \A w \in Workers :
    LET r == slots[w]
    IN (/\ r.via = "telegram" /\ r.pc \in {"done", "failed"}
        /\ WasAwaiting(r) /\ Did(r, "insertExpense"))
       => \A x \in StateRows(user_state, r.userId) : x.step # "await_amount"

\* ------------------------------------------------------- the other copy ----
\* The second copy of the worker (part_000) handles, on tables of its own,
\* every update and every summary request the first copy has handled: its
\* invocation, the invocation of the first copy it follows and its two tables
\* are kept in `call`.

WorldB(slot, seen, us, ex) ==
  [fn |-> "copy_b", args |-> <<slot, seen>>, result |-> <<us, ex>>]

SlotB == IF call.fn = "copy_b" THEN call.args[1] ELSE IdleSlot

SeenB == IF call.fn = "copy_b" THEN call.args[2] ELSE IdleSlot

UserStateB == IF call.fn = "copy_b" THEN call.result[1] ELSE {}

ExpensesB == IF call.fn = "copy_b" THEN call.result[2] ELSE {}

StepB(slot, us, ex) == [slot |-> slot, us |-> us, ex |-> ex]

Thrown(r, what) ==
  [r EXCEPT !.pc = "failed", !.trace = Append(@, [op |-> "error", what |-> what])]

\* A daily summary whose remaining amount is the budget, whatever was spent.
DailySummaryDataUnspent(ex, sgDate) ==
  [date |-> sgDate, budget_daily |-> dailyBudgetForSgDateString(sgDate),
   spent_daily |-> sumForDate(ex, sgDate, DAILY_CATEGORIES).total,
   remaining_daily |-> dailyBudgetForSgDateString(sgDate),
   by_category |-> sumForDate(ex, sgDate, DAILY_CATEGORIES).byCategory]

\* getDailySummaryData from the resolved date on: the budget of the date, the
\* sum of the daily categories and the object returned.
DailySummaryData(ex, sgDate) ==
  [date |-> sgDate, budget_daily |-> dailyBudgetForSgDateString(sgDate),
   spent_daily |-> sumForDate(ex, sgDate, DAILY_CATEGORIES).total,
   remaining_daily |-> dailyBudgetForSgDateString(sgDate)
                         - sumForDate(ex, sgDate, DAILY_CATEGORIES).total,
   by_category |-> sumForDate(ex, sgDate, DAILY_CATEGORIES).byCategory]

\* getDailySummaryData(env, dateStr) run by invocation r at clock reading c: a
\* date that fails normalizeSgDateString throws, none is today's.
getDailySummaryData(r, ex, c, dateStr) ==
  IF dateStr # Null /\ dateStr # <<>> /\ normalizeSgDateString(dateStr) = Null
  THEN Thrown(r, "Invalid date format")
  ELSE [r EXCEPT !.pc = "today_read",
                 !.bucket = IF dateStr # Null /\ dateStr # <<>>
                            THEN normalizeSgDateString(dateStr) ELSE nowSgLocal(c).tsSgDate,
                 !.sums = <<sumForDate(ex, IF dateStr # Null /\ dateStr # <<>>
                                           THEN normalizeSgDateString(dateStr)
                                           ELSE nowSgLocal(c).tsSgDate, DAILY_CATEGORIES)>>,
                 !.trace = Append(@, Db("sumForDate")),
                 !.response = [status |-> 0,
                               body |-> DailySummaryData(ex,
                                          IF dateStr # Null /\ dateStr # <<>>
                                          THEN normalizeSgDateString(dateStr)
                                          ELSE nowSgLocal(c).tsSgDate)]]

\* The argument null where a number is expected.
NullNumber == [k |-> "null", v |-> 0]

\* year ?? now.year
OrNow(n, fallback) == IF n.k = "null" THEN Num(100 * fallback) ELSE n

\* getMonthlySummaryData(env, year, month) up to its first await, for the
\* year y and month m resolved: the check of both, then the sum of the daily
\* categories of the month.
MonthlySummaryStart(r, ex, y, m) ==
  IF ~isFinite(y) \/ ~isFinite(m) \/ m.v < 100 \/ m.v > 1200
  THEN Thrown([r EXCEPT !.year = y, !.month = m], "Invalid year or month")
  ELSE [r EXCEPT !.pc = "month_daily", !.year = y, !.month = m,
                 !.bucket = apiMonthKey(y.v, m.v),
                 !.sums = <<sumForMonth(ex, apiMonthKey(y.v, m.v), DAILY_CATEGORIES)>>,
                 !.trace = Append(@, Db("sumForMonth"))]

getMonthlySummaryData(r, ex, c, year, month) ==
  MonthlySummaryStart(r, ex, OrNow(year, nowSgLocal(c).year), OrNow(month, nowSgLocal(c).month))

\* The object getMonthlySummaryData returns, from the three sums.
MonthlySummaryData(r) ==
  [year |-> r.year.v, month |-> r.month.v,
   weekdays |-> countWeekdaysWeekends(Trunc(r.year.v), Trunc(r.month.v)).weekdays,
   weekends |-> countWeekdaysWeekends(Trunc(r.year.v), Trunc(r.month.v)).weekends,
   monthly_daily_budget |-> monthlyDailyBucketBudget(Trunc(r.year.v), Trunc(r.month.v)),
   spent_daily |-> r.sums[1].total, spent_monthly |-> r.sums[2].total,
   spent_other |-> r.sums[3].total,
   total_budget_tracked |->
     monthlyDailyBucketBudget(Trunc(r.year.v), Trunc(r.month.v)) + fixedBudgetTotal,
   total_spent_tracked |-> r.sums[1].total + r.sums[2].total,
   remaining_tracked |->
     monthlyDailyBucketBudget(Trunc(r.year.v), Trunc(r.month.v)) + fixedBudgetTotal
       - (r.sums[1].total + r.sums[2].total)]

\* handleTelegramUpdate of the second copy up to its first await.
handleTelegramUpdateB(u, us, ex) ==
  IF ~u.message \/ u.from = 0 \/ u.chat = 0 \/ ~allowedHas(allowedUserIds, u.from)
  THEN StepB([IdleSlot EXCEPT !.update = u, !.userId = u.from, !.chatId = u.chat,
                              !.text = trim(TextRaw(u)), !.pre_us = us, !.pre_ex = ex,
                              !.pc = "done"], us, ex)
  ELSE IF startsWithSlash(trim(TextRaw(u)))
  THEN StepB([IdleSlot EXCEPT !.update = u, !.userId = u.from, !.chatId = u.chat,
                              !.text = trim(TextRaw(u)), !.pre_us = us, !.pre_ex = ex,
                              !.pc = "cleared", !.trace = <<Db("clearUserState")>>],
             clearUserState(us, u.from), ex)
  ELSE StepB([IdleSlot EXCEPT !.update = u, !.userId = u.from, !.chatId = u.chat,
                              !.text = trim(TextRaw(u)), !.pre_us = us, !.pre_ex = ex,
                              !.pc = "got_state", !.state = getUserState(us, u.from),
                              !.trace = <<Db("getUserState")>>], us, ex)

Sent(r, what) == [r EXCEPT !.pc = "done", !.trace = Append(@, Send(what))]

\* The command dispatch of the second copy (lines 373-389), with its
\* handleStart, handleAdd, handleToday and handleMonth up to their first
\* await.
dispatchCommandB(r, us, ex, c) ==
  IF firstToken(r.text) = T_start THEN StepB(Sent(r, "start"), us, ex)
  ELSE IF firstToken(r.text) = T_add
  THEN StepB([r EXCEPT !.pc = "add_set", !.trace = Append(@, Db("setUserState"))],
             setUserState(us, r.userId, "choose_category", Null), ex)
  ELSE IF firstToken(r.text) = T_today
  THEN StepB(getDailySummaryData(r, ex, c, Null), us, ex)
  ELSE IF firstToken(r.text) = T_month
  THEN StepB(getMonthlySummaryData(r, ex, c, NullNumber, NullNumber), us, ex)
  ELSE StepB(Sent(r, "unknown_command"), us, ex)

\* The steps of the second copy for a text that is no command (lines 393-442).
conversationStepB(r, us, ex, c) ==
  IF r.state.found /\ r.state.step = "choose_category"
  THEN IF inCATEGORIES(r.text)
       THEN StepB([r EXCEPT !.pc = "category_set", !.trace = Append(@, Db("setUserState"))],
                  setUserState(us, r.userId, "await_amount", r.text), ex)
       ELSE StepB(Sent(r, "category_keyboard"), us, ex)
  ELSE IF r.state.found /\ r.state.step = "await_amount" /\ Truthy(r.state.category)
  THEN IF ~isFinite(Number(r.text))
       THEN StepB(Sent([r EXCEPT !.amount = Number(r.text)], "invalid_number"), us, ex)
       ELSE StepB([r EXCEPT !.pc = "inserted", !.amount = Number(r.text),
                            !.trace = Append(@, Db("insertExpense"))],
                  us, insertExpense(ex, nowSgLocal(c), r.userId, r.state.category,
                                    Number(r.text).v))
  ELSE StepB(Sent(r, "usage_hint"), us, ex)

\* The continuation of an invocation of the second copy after an await.
resumeB(r, us, ex, c) ==
  IF r.pc = "cleared" THEN dispatchCommandB(r, us, ex, c)
  ELSE IF r.pc = "got_state" THEN conversationStepB(r, us, ex, c)
  ELSE IF r.pc = "add_set" THEN StepB(Sent(r, "choose_category"), us, ex)
  ELSE IF r.pc = "category_set" THEN StepB(Sent(r, "enter_amount"), us, ex)
  ELSE IF r.pc = "inserted"
  THEN StepB([r EXCEPT !.pc = "amount_cleared", !.trace = Append(@, Db("clearUserState"))],
             clearUserState(us, r.userId), ex)
  ELSE IF r.pc = "amount_cleared" THEN StepB(Sent(r, "recorded"), us, ex)
  ELSE IF r.pc = "today_read"
  THEN StepB(IF r.via = "telegram" THEN Sent(r, "today") ELSE [r EXCEPT !.pc = "done"], us, ex)
  ELSE IF r.pc = "month_daily"
  THEN StepB([r EXCEPT !.pc = "month_monthly",
                        !.sums = Append(@, sumForMonth(ex, r.bucket, MONTHLY_CATEGORIES)),
                        !.trace = Append(@, Db("sumForMonth"))], us, ex)
  ELSE IF r.pc = "month_monthly"
  THEN StepB([r EXCEPT !.pc = "month_other",
                        !.sums = Append(@, sumForMonth(ex, r.bucket, OTHER_CATEGORIES)),
                        !.trace = Append(@, Db("sumForMonth"))], us, ex)
  ELSE StepB(IF r.via = "telegram"
             THEN Sent([r EXCEPT !.response = [status |-> 0, body |-> MonthlySummaryData(r)]],
                       "month")
             ELSE [r EXCEPT !.pc = "done",
                            !.response = [status |-> 0, body |-> MonthlySummaryData(r)]],
             us, ex)

\* The query parameter as the number the second copy's function is given.
NumberOrNull(str) == IF str = Null THEN NullNumber ELSE Number(str)

\* The second copy has handled what the first copy handled last.
InSync == slots[1].pc = "idle" \/ (SlotB.pc \in {"done", "failed"} /\ SeenB = slots[1])

\* The second copy starts on what the first copy has just finished: the
\* update, or the summary for the date or the year and month requested.
StartB ==
  LET a == slots[1]
      r == [IdleSlot EXCEPT !.via = a.via, !.query = a.query,
                            !.pre_us = UserStateB, !.pre_ex = ExpensesB]
  IN /\ a.pc = "done" /\ ~InSync
     /\ SlotB.pc \in {"idle", "done", "failed"}
     /\ call' = IF a.via = "telegram"
                THEN LET n == handleTelegramUpdateB(a.update, UserStateB, ExpensesB)
                     IN WorldB(n.slot, a, n.us, n.ex)
                ELSE IF a.via = "api_daily"
                THEN WorldB(getDailySummaryData(r, ExpensesB, clock, a.query[1]), a,
                            UserStateB, ExpensesB)
                ELSE WorldB(getMonthlySummaryData(r, ExpensesB, clock,
                                                  NumberOrNull(a.query[1]),
                                                  NumberOrNull(a.query[2])), a,
                            UserStateB, ExpensesB)
     /\ UNCHANGED <<user_state, expenses, clock, slots>>

ResumeB ==
  /\ call.fn = "copy_b"
  /\ SlotB.pc \notin {"idle", "done", "failed"}
  /\ LET n == resumeB(SlotB, UserStateB, ExpensesB, clock)
     IN call' = WorldB(n.slot, SeenB, n.us, n.ex)
  /\ UNCHANGED <<user_state, expenses, clock, slots>>

\* What the two copies are given: the texts of a conversation and of every
\* command from a member, an update from a stranger, one without chat, and
\* the summaries of given and of missing dates and months.
CopyUpdates ==
  {Msg(1, 1, t) : t \in {T_start, T_add, T_today, T_month, T_foo, T_Meals, T_Groceries,
                         T_1250, T_abc, Null}}
    \cup {Msg(3, 3, T_add), Msg(1, 0, T_add)}

DeliverCopies == InSync /\ \E u \in CopyUpdates : HandleUpdate(1, u)

AskDailyCopies == InSync /\ \E d \in ApiDates : ApiDailySummary(1, d)

AskMonthlyCopies == InSync /\ \E q \in ApiMonths : ApiMonthlySummary(1, q[1], q[2])

TickCopies == InSync /\ Tick

NextCopies ==
  \/ DeliverCopies \/ Resume(1) \/ AskDailyCopies \/ AskMonthlyCopies \/ ResumeApi(1)
  \/ StartB \/ ResumeB \/ TickCopies

SpecCopies == Init /\ [][NextCopies]_vars

\* The storage operations of a trace, in order.
StorageOps(trace) == SelectSeq(trace, LAMBDA t : t.op = "db")

\* C36: whenever the second copy has handled the update the first copy
\* handled, from the same tables, both have performed the same storage
\* operations in the same order and the tables of both are equal; and the
\* daily and monthly summaries both compute, for the same date or year and
\* month over the same expense table, have the same figures, a request the
\* first copy answers 400 being one the second copy throws on.
Thm_C36_CopiesEquivalent ==
  (call.fn = "copy_b" /\ SlotB.pc \in {"done", "failed"} /\ SeenB = slots[1]
     /\ SlotB.pre_us = slots[1].pre_us /\ SlotB.pre_ex = slots[1].pre_ex)
  => /\ StorageOps(SlotB.trace) = StorageOps(slots[1].trace)
     /\ UserStateB = user_state /\ ExpensesB = expenses
     /\ SlotB.sums = slots[1].sums
     /\ slots[1].via = "telegram" => SlotB.trace = slots[1].trace
     /\ slots[1].via \in {"api_daily", "api_monthly"}
        => IF slots[1].response.status = 200
           THEN SlotB.pc = "done" /\ SlotB.response.body = slots[1].response.body
           ELSE SlotB.pc = "failed" /\ slots[1].response.status = 400

\* Both copies have recorded two expenses, one in a daily and one in a
\* monthly category, and both have computed the monthly summary of the month.
Wit_C36_CopiesEquivalent ==
  /\ call.fn = "copy_b" /\ SlotB.pc = "done" /\ SeenB = slots[1]
  /\ SlotB.pre_ex = slots[1].pre_ex
  /\ slots[1].via = "api_monthly" /\ slots[1].response.status = 200
  /\ Cardinality(ExpensesB) = 2
  /\ SlotB.response.body.spent_monthly # 0
  /\ SlotB.response.body.spent_daily # 0

====
